---- MODULE Spec2Model ----
(***************************************************************************)
(* Model of the EBIOS RM risk engine (ebiosrm_core): the record types of   *)
(* models.py, the risk calculation of generator.py and the loading and     *)
(* command pipeline around them.                                           *)
(*                                                                         *)
(* Text is modelled as a sequence of tokens.  A token is one of the        *)
(* characters "," ":" " " or a whole word ("Low", "critical", "A", ...);   *)
(* two adjacent word tokens spell a longer word that is none of the words  *)
(* of the alphabet, so the string "Low" is <<"Low">> and "A:Low" is        *)
(* <<"A", ":", "Low">>.  Python's str.split, str.strip, `in` and dict      *)
(* lookup are computed on these sequences as Python computes them on       *)
(* characters.                                                             *)
(* A float n/d is the reduced fraction [num |-> n, den |-> d].             *)
(* A call's outcome is [exc |-> "none", val |-> v] when it returns v and   *)
(* [exc |-> e] when it raises an exception of type e.                      *)
(***************************************************************************)
EXTENDS Integers, Sequences, FiniteSets, TLC

VARIABLES
    asset,      \* models spec: the Asset object last constructed (<<>> = none)
    threat,     \* models spec: the Threat object last constructed (<<>> = none)
    ret,        \* models spec: the last call, its arguments and its outcome
    assets,     \* engine spec: the caller's list of Asset objects
    threats,    \* engine spec: the caller's list of Threat objects
    returned,   \* engine spec: outcome of the calculate_risk_levels call
    fs,         \* pipeline spec: the files of the configuration directory
    cli,        \* pipeline spec: the command run and how it ended
    report,     \* pipeline spec: the report file written by the exporter
    call        \* loader spec: the loader or run call made and its outcome

vars == <<asset, threat, ret, assets, threats, returned, fs, cli, report, call>>

modelVars == <<asset, threat, ret>>
engineVars == <<assets, threats, returned>>
pipelineVars == <<fs, cli, report, call>>

-----------------------------------------------------------------------------
(* Bounds                                                                  *)

MaxSteps == 3
MaxSeverity == 5
MaxAssets == 2
MaxThreats == 2
MaxRows == 2

-----------------------------------------------------------------------------
(* Outcomes, floats and Python built-ins                                   *)

Return(v) == [exc |-> "none", val |-> v]
Raise(e) == [exc |-> e]
RaiseMsg(e, m) == [exc |-> e, msg |-> m]

RECURSIVE GCD(_, _)
GCD(a, b) == IF b = 0 THEN a ELSE GCD(b, a % b)

\* the float a / b for integers a >= 0, b > 0
truediv(a, b) == LET g == GCD(a, b) IN [num |-> a \div g, den |-> b \div g]

\* int(x) of a float: truncation toward zero
int(x) == IF x.num >= 0 THEN x.num \div x.den ELSE 0 - ((0 - x.num) \div x.den)

min(a, b) == IF a <= b THEN a ELSE b

RECURSIVE sum(_)
sum(xs) == IF xs = <<>> THEN 0 ELSE Head(xs) + sum(Tail(xs))

\* the least element of a non-empty list
RECURSIVE least(_)
least(xs) ==
    IF Len(xs) = 1 THEN Head(xs)
    ELSE LET m == least(Tail(xs)) IN IF Head(xs) <= m THEN Head(xs) ELSE m

RECURSIVE max(_)
max(xs) ==
    IF Len(xs) = 1 THEN Head(xs)
    ELSE LET m == max(Tail(xs)) IN IF Head(xs) >= m THEN Head(xs) ELSE m

\* tok in s
contains(s, tok) == \E i \in 1..Len(s) : s[i] = tok

\* index of the first occurrence of tok in s (s contains tok)
find(s, tok) == CHOOSE i \in 1..Len(s) : s[i] = tok /\ \A j \in 1..(i - 1) : s[j] # tok

\* s.split(sep)
RECURSIVE split(_, _)
split(s, sep) ==
    IF ~contains(s, sep) THEN <<s>>
    ELSE LET i == find(s, sep)
         IN <<SubSeq(s, 1, i - 1)>> \o split(SubSeq(s, i + 1, Len(s)), sep)

\* s.split(sep, 1) of an s that contains sep
split1(s, sep) ==
    LET i == find(s, sep) IN <<SubSeq(s, 1, i - 1), SubSeq(s, i + 1, Len(s))>>

RECURSIVE lstrip(_)
lstrip(s) == IF s # <<>> /\ Head(s) = " " THEN lstrip(Tail(s)) ELSE s

RECURSIVE rstrip(_)
rstrip(s) ==
    IF s # <<>> /\ s[Len(s)] = " " THEN rstrip(SubSeq(s, 1, Len(s) - 1)) ELSE s

strip(s) == rstrip(lstrip(s))

\* list[i] of a language without negative indices
getitem_no_wrap(list, i) ==
    IF i >= 0 /\ i < Len(list) THEN Return(list[i + 1])
    ELSE Raise("IndexError")

\* list[i] with Python's negative indices
getitem(list, i) ==
    IF i >= 0 /\ i < Len(list) THEN Return(list[i + 1])
    ELSE IF i < 0 /\ i >= 0 - Len(list) THEN Return(list[Len(list) + i + 1])
    ELSE Raise("IndexError")

-----------------------------------------------------------------------------
(* models.py                                                               *)

Low == <<"Low">>
Medium == <<"Medium">>
High == <<"High">>
Critical == <<"Critical">>

CriticalityLevel == {Low, Medium, High, Critical}

\* Asset(id=..., type=..., label=..., criticality=...)
Asset(id, type, label, criticality) ==
    IF criticality \in CriticalityLevel
    THEN Return([id |-> id, type |-> type, label |-> label,
                 criticality |-> criticality])
    ELSE Raise("ValidationError")

severity_mapping_zero_based == [c \in CriticalityLevel |->
    CASE c = Low -> 0 [] c = Medium -> 1 [] c = High -> 2 [] c = Critical -> 3]

severity_mapping == [c \in CriticalityLevel |->
    CASE c = Low -> 1 [] c = Medium -> 2 [] c = High -> 3 [] c = Critical -> 4]

severity_score(self) == severity_mapping[self.criticality]

validate_steps_format_nonempty(v) ==
    IF v = <<>> THEN Raise("ValueError") ELSE Return(v)

validate_steps_format(v) ==
    IF v = <<>> \/ ~contains(v, ":") THEN Raise("ValueError") ELSE Return(v)

\* Threat(sr_id=..., ov_id=..., strategic_path=..., operational_steps=...,
\*        risk_sources=..., targeted_objectives=...)
Threat(sr_id, ov_id, strategic_path, operational_steps, risk_sources, targeted_objectives) ==
    IF validate_steps_format(operational_steps).exc # "none"
    THEN Raise("ValidationError")
    ELSE Return([sr_id |-> sr_id, ov_id |-> ov_id,
                 strategic_path |-> strategic_path,
                 operational_steps |-> validate_steps_format(operational_steps).val,
                 risk_sources |-> risk_sources,
                 targeted_objectives |-> targeted_objectives])

step_mapping == [w \in {<<"Low">>, <<"Medium">>, <<"High">>, <<"Critical">>} |->
    CASE w = <<"Low">> -> 1 [] w = <<"Medium">> -> 2 [] w = <<"High">> -> 3 [] w = <<"Critical">> -> 4]

\* s.rsplit(sep, 1) of an s that contains sep
rsplit1(s, sep) ==
    LET i == CHOOSE k \in 1..Len(s) : s[k] = sep /\ \A j \in (k + 1)..Len(s) : s[j] # sep
    IN <<SubSeq(s, 1, i - 1), SubSeq(s, i + 1, Len(s))>>

step_level_rsplit(step) == strip(rsplit1(step, ":")[2])

\* the level part of one step, as the loop body computes it
step_level(step) == strip(split1(step, ":")[2])

\* the loop over the steps: the list `scores`
RECURSIVE step_scores(_)
step_scores(steps) ==
    IF steps = <<>> THEN <<>>
    ELSE LET step == strip(Head(steps))
             rest == step_scores(Tail(steps))
         IN IF ~contains(step, ":") THEN rest
            ELSE IF step_level(step) \in DOMAIN step_mapping
                 THEN <<step_mapping[step_level(step)]>> \o rest
                 ELSE rest

default_likelihood_zero == truediv(0, 1)

default_likelihood == truediv(1, 1)

likelihood_score(self) ==
    LET scores == step_scores(split(self.operational_steps, ","))
    IN IF scores # <<>> THEN Return(truediv(sum(scores), Len(scores)))
       ELSE Return(default_likelihood)

\* a matrix whose High-severity row starts above its Critical-severity row
matrix_high_row_first == <<
    <<Low, Low, Medium, High>>,
    <<Low, Medium, Medium, High>>,
    <<High, Medium, High, Critical>>,
    <<Medium, High, Critical, Critical>> >>

matrix == <<
    <<Low, Low, Medium, High>>,
    <<Low, Medium, Medium, High>>,
    <<Medium, Medium, High, Critical>>,
    <<Medium, High, Critical, Critical>> >>

sev_idx_unclamped(severity) == severity - 1

sev_idx(severity) == min(severity - 1, 3)
lik_idx(likelihood) == min(int(likelihood) - 1, 3)

risk_level(self, max_asset_severity) ==
    LET likelihood == likelihood_score(self)
    IN IF likelihood.exc # "none" THEN likelihood
       ELSE LET row == getitem(matrix, sev_idx(max_asset_severity))
            IN IF row.exc # "none" THEN row
               ELSE getitem(row.val, lik_idx(likelihood.val))

\* the other enumerations of models.py
StakeholderType == {<<"Internal">>, <<"External">>, <<"Regulatory">>, <<"Commercial">>}

MeasureType == {<<"Preventive">>, <<"Detective">>, <<"Corrective">>, <<"Recovery">>}

\* RiskSource(id=..., ...): every field is required, capability_level is a
\* CriticalityLevel
RiskSource(id, label, category, motivation, capability_level, resources) ==
    IF capability_level \in CriticalityLevel
    THEN Return([id |-> id, label |-> label, category |-> category,
                 motivation |-> motivation, capability_level |-> capability_level,
                 resources |-> resources])
    ELSE Raise("ValidationError")

\* TargetedObjective(id=..., ...)
TargetedObjective(id, label, target_assets, business_impact, attack_scenarios) ==
    IF business_impact \in CriticalityLevel
    THEN Return([id |-> id, label |-> label, target_assets |-> target_assets,
                 business_impact |-> business_impact,
                 attack_scenarios |-> attack_scenarios])
    ELSE Raise("ValidationError")

\* Stakeholder(id=..., ...)
Stakeholder(id, name, type, role, responsibilities, contact_info) ==
    IF type \in StakeholderType
    THEN Return([id |-> id, name |-> name, type |-> type, role |-> role,
                 responsibilities |-> responsibilities,
                 contact_info |-> contact_info])
    ELSE Raise("ValidationError")

\* SecurityMeasure(id=..., ...)
SecurityMeasure(id, label, type, description, effectiveness, implementation_cost, target_threats, responsible_stakeholder) ==
    IF type \in MeasureType /\ effectiveness \in CriticalityLevel
       /\ implementation_cost \in CriticalityLevel
    THEN Return([id |-> id, label |-> label, type |-> type,
                 description |-> description, effectiveness |-> effectiveness,
                 implementation_cost |-> implementation_cost,
                 target_threats |-> target_threats,
                 responsible_stakeholder |-> responsible_stakeholder])
    ELSE Raise("ValidationError")

\* a validator that appends the slash in every case
ensure_trailing_slash_always(v) == v \o <<"/">>

\* output_dir of Settings after ensure_trailing_slash
ensure_trailing_slash(v) ==
    IF v # <<>> /\ v[Len(v)] = "/" THEN v ELSE v \o <<"/">>

\* Settings(**data) for a mapping that gives excel_template, output_dir or
\* neither; the validator runs on a supplied output_dir only, not on the
\* default
Settings(data) ==
    Return([excel_template |-> IF <<"excel_template">> \in DOMAIN data
                               THEN data[<<"excel_template">>]
                               ELSE <<"templates/ebiosrm_empty", ".", "xlsx">>,
            severity_scale |-> <<Low, Medium, High, Critical>>,
            likelihood_scale |-> <<<<"One-shot">>, <<"Occasional">>,
                                   <<"Probable">>, <<"Systematic">>>>,
            output_dir |-> IF <<"output_dir">> \in DOMAIN data
                           THEN ensure_trailing_slash(data[<<"output_dir">>])
                           ELSE <<"build", "/">>])

\* model_dump(): the dict of the fields of a record object, by field name
model_dump(self) == [f \in DOMAIN self |-> self[f]]

-----------------------------------------------------------------------------
(* generator.py                                                            *)

\* max(asset.severity_score() for asset in assets)
max_severity_of_default(asset_list) ==
    IF asset_list = <<>> THEN Return(0)
    ELSE Return(max([i \in 1..Len(asset_list) |-> severity_score(asset_list[i])]))

max_severity_of(asset_list) ==
    IF asset_list = <<>> THEN Raise("ValueError")
    ELSE Return(max([i \in 1..Len(asset_list) |-> severity_score(asset_list[i])]))

\* [asset.id for asset in assets]
asset_ids(asset_list) == [i \in 1..Len(asset_list) |-> asset_list[i].id]

result_dict_ov_from_sr(t, likelihood, max_severity, level, asset_list) ==
    [threat_id |-> t.sr_id,
     threat_ov |-> t.sr_id,
     strategic_path |-> t.strategic_path,
     operational_steps |-> t.operational_steps,
     likelihood_score |-> likelihood,
     max_severity |-> max_severity,
     severity_score |-> max_severity,
     risk_level |-> level,
     affected_assets |-> asset_ids(asset_list)]

\* the dict literal assigned to `result`
result_dict(t, likelihood, max_severity, level, asset_list) ==
    [threat_id |-> t.sr_id,
     threat_ov |-> t.ov_id,
     strategic_path |-> t.strategic_path,
     operational_steps |-> t.operational_steps,
     likelihood_score |-> likelihood,
     max_severity |-> max_severity,
     severity_score |-> max_severity,
     risk_level |-> level,
     affected_assets |-> asset_ids(asset_list)]

\* the body of the loop over the threats
threat_result(asset_list, t) ==
    LET max_severity == max_severity_of(asset_list)
    IN IF max_severity.exc # "none" THEN max_severity
       ELSE LET level == risk_level(t, max_severity.val)
                likelihood == likelihood_score(t)
            IN IF level.exc # "none" THEN level
               ELSE IF likelihood.exc # "none" THEN likelihood
               ELSE Return(result_dict(t, likelihood.val, max_severity.val,
                                       level.val, asset_list))

RECURSIVE results_loop_prepend(_, _, _)
results_loop_prepend(asset_list, threat_list, results) ==
    IF threat_list = <<>> THEN Return(results)
    ELSE LET result == threat_result(asset_list, Head(threat_list))
         IN IF result.exc # "none" THEN result
            ELSE results_loop_prepend(asset_list, Tail(threat_list),
                                      <<result.val>> \o results)

\* the loop over the threats, appending to `results`
RECURSIVE results_loop(_, _, _)
results_loop(asset_list, threat_list, results) ==
    IF threat_list = <<>> THEN Return(results)
    ELSE LET result == threat_result(asset_list, Head(threat_list))
         IN IF result.exc # "none" THEN result
            ELSE results_loop(asset_list, Tail(threat_list),
                              Append(results, result.val))

\* a calculation that takes the maximum once, before the loop
calculate_risk_levels_max_first(asset_list, threat_list) ==
    IF max_severity_of(asset_list).exc # "none" THEN max_severity_of(asset_list)
    ELSE results_loop(asset_list, threat_list, <<>>)

calculate_risk_levels(asset_list, threat_list) ==
    results_loop(asset_list, threat_list, <<>>)

-----------------------------------------------------------------------------
(* loader.py                                                               *)
(* A file is [exists |-> BOOLEAN, lines |-> the list of its CSV lines],    *)
(* each line the list of its cells.  A dict is a function from its keys.   *)

\* None as a dict key or value (a word no input contains)
None == <<"<None>">>

\* csv.DictReader: the dict of one data line
DictRow(fieldnames, row) ==
    [k \in {fieldnames[i] : i \in 1..Len(fieldnames)}
            \cup (IF Len(row) > Len(fieldnames) THEN {None} ELSE {}) |->
        IF k = None THEN None
        ELSE LET i == CHOOSE n \in 1..Len(fieldnames) :
                        /\ fieldnames[n] = k
                        /\ \A j \in (n + 1)..Len(fieldnames) : fieldnames[j] # k
             IN IF i <= Len(row) THEN row[i] ELSE None]

\* key is None or not isinstance(key, str) or not key.strip()
invalid_key(key) == key = None \/ strip(key) = <<>>

\* position of a key in the iteration order of the dict of a data line
key_order(fieldnames, key) ==
    IF key = None THEN Len(fieldnames) + 1
    ELSE CHOOSE n \in 1..Len(fieldnames) :
            fieldnames[n] = key /\ \A j \in 1..(n - 1) : fieldnames[j] # key

\* str(value).strip() if value is not None else ""
clean_value(value) == IF value = None THEN <<>> ELSE strip(value)

\* the loop that fills clean_row from the kept keys of the dict d: among
\* the keys with the same clean key the one iterated last wins
clean_row_of(fieldnames, d, keys) ==
    [c \in {strip(k) : k \in keys} |->
        LET k == CHOOSE k1 \in keys :
                    /\ strip(k1) = c
                    /\ \A k2 \in keys : strip(k2) = c =>
                          key_order(fieldnames, k2) <= key_order(fieldnames, k1)
        IN clean_value(d[k])]

\* clean_row of load_assets: every valid key is kept
asset_clean_row(fieldnames, row) ==
    LET d == DictRow(fieldnames, row)
    IN clean_row_of(fieldnames, d, {k \in DOMAIN d : ~invalid_key(k)})

\* Asset(**clean_row)
AssetFromRow(clean_row) ==
    IF {<<"id">>, <<"type">>, <<"label">>, <<"criticality">>} \subseteq DOMAIN clean_row
    THEN Asset(clean_row[<<"id">>], clean_row[<<"type">>], clean_row[<<"label">>],
               clean_row[<<"criticality">>])
    ELSE Raise("ValidationError")

\* a loop that leaves a failing line out and goes on
RECURSIVE load_asset_rows_skipping(_, _, _, _)
load_asset_rows_skipping(fieldnames, rows, row_num, loaded) ==
    IF rows = <<>> THEN Return(loaded)
    ELSE LET made == AssetFromRow(asset_clean_row(fieldnames, Head(rows)))
         IN load_asset_rows_skipping(fieldnames, Tail(rows), row_num + 1,
                IF made.exc # "none" THEN loaded ELSE Append(loaded, made.val))

RECURSIVE load_asset_rows(_, _, _, _)
load_asset_rows(fieldnames, rows, row_num, loaded) ==
    IF rows = <<>> THEN Return(loaded)
    ELSE LET made == AssetFromRow(asset_clean_row(fieldnames, Head(rows)))
         IN IF made.exc # "none"
            THEN RaiseMsg("ValueError", [kind |-> "row_error", file |-> "assets.csv",
                                         row |-> row_num + 1, cause |-> made])
            ELSE load_asset_rows(fieldnames, Tail(rows), row_num + 1,
                                 Append(loaded, made.val))

\* a load_assets without the check of the required columns
load_assets_unchecked(file) ==
    IF ~file.exists
    THEN RaiseMsg("FileNotFoundError", [kind |-> "file_not_found", file |-> "assets.csv"])
    ELSE IF file.lines = <<>>
    THEN RaiseMsg("ValueError", [kind |-> "no_headers", file |-> "assets.csv"])
    ELSE load_asset_rows(Head(file.lines), Tail(file.lines), 0, <<>>)

load_assets(file) ==
    IF ~file.exists
    THEN RaiseMsg("FileNotFoundError", [kind |-> "file_not_found", file |-> "assets.csv"])
    ELSE IF file.lines = <<>>
    THEN RaiseMsg("ValueError", [kind |-> "no_headers", file |-> "assets.csv"])
    ELSE LET fieldnames == Head(file.lines)
             required == {<<"id">>, <<"type">>, <<"label">>, <<"criticality">>}
             present == {fieldnames[i] : i \in 1..Len(fieldnames)}
         IN IF ~(required \subseteq present)
            THEN RaiseMsg("ValueError", [kind |-> "missing_columns",
                                         columns |-> required \ present])
            ELSE load_asset_rows(fieldnames, Tail(file.lines), 0, <<>>)

\* the clean names of the valid headers
valid_headers_stripped(fieldnames) ==
    {strip(fieldnames[i]) : i \in {n \in 1..Len(fieldnames) : strip(fieldnames[n]) # <<>>}}

\* the valid headers of load_threats
valid_headers(fieldnames) ==
    {fieldnames[i] : i \in {n \in 1..Len(fieldnames) : strip(fieldnames[n]) # <<>>}}

\* clean_row of load_threats: a valid key is kept when its clean key is one
\* of the valid headers
threat_clean_row(fieldnames, row) ==
    LET d == DictRow(fieldnames, row)
    IN clean_row_of(fieldnames, d,
           {k \in DOMAIN d : ~invalid_key(k) /\ strip(k) \in valid_headers(fieldnames)})

\* [x.strip() for x in value.split(",")]
split_list(value) ==
    LET parts == split(value, ",") IN [i \in 1..Len(parts) |-> strip(parts[i])]

\* an optional list field of a threat row as the Threat constructor gets it:
\* the default when the key is absent, the split list when the value is not
\* empty, and the (rejected) empty string otherwise
list_field(clean_row, key) ==
    IF key \notin DOMAIN clean_row THEN Return(<<>>)
    ELSE IF clean_row[key] # <<>> THEN Return(split_list(clean_row[key]))
    ELSE Raise("ValidationError")

required_fields == <<<<"sr_id">>, <<"ov_id">>, <<"strategic_path">>, <<"operational_steps">>>>

\* the body of the try block of load_threats after clean_row is filled
ThreatFromRow(clean_row) ==
    LET missing_fields ==
            SelectSeq(required_fields, LAMBDA f : f \notin DOMAIN clean_row)
        risk_sources == list_field(clean_row, <<"risk_sources">>)
        targeted_objectives == list_field(clean_row, <<"targeted_objectives">>)
    IN IF missing_fields # <<>>
       THEN RaiseMsg("ValueError", [kind |-> "missing_required_fields",
                                    fields |-> missing_fields])
       ELSE IF risk_sources.exc # "none" THEN risk_sources
       ELSE IF targeted_objectives.exc # "none" THEN targeted_objectives
       ELSE Threat(clean_row[<<"sr_id">>], clean_row[<<"ov_id">>],
                   clean_row[<<"strategic_path">>], clean_row[<<"operational_steps">>],
                   risk_sources.val, targeted_objectives.val)

RECURSIVE load_threat_rows(_, _, _, _)
load_threat_rows(fieldnames, rows, row_num, loaded) ==
    IF rows = <<>> THEN Return(loaded)
    ELSE LET made == ThreatFromRow(threat_clean_row(fieldnames, Head(rows)))
         IN IF made.exc # "none"
            THEN RaiseMsg("ValueError", [kind |-> "row_error", file |-> "threats.csv",
                                         row |-> row_num + 1, cause |-> made])
            ELSE load_threat_rows(fieldnames, Tail(rows), row_num + 1,
                                  Append(loaded, made.val))

\* a load_threats that checks the required columns on the header, as
\* load_assets does
load_threats_header_checked(file) ==
    IF ~file.exists
    THEN RaiseMsg("FileNotFoundError", [kind |-> "file_not_found", file |-> "threats.csv"])
    ELSE IF file.lines = <<>>
    THEN RaiseMsg("ValueError", [kind |-> "no_headers", file |-> "threats.csv"])
    ELSE IF \E n \in 1..Len(required_fields) :
                \A i \in 1..Len(Head(file.lines)) : Head(file.lines)[i] # required_fields[n]
    THEN RaiseMsg("ValueError", [kind |-> "missing_columns", columns |-> {}])
    ELSE load_threat_rows(Head(file.lines), Tail(file.lines), 0, <<>>)

load_threats(file) ==
    IF ~file.exists
    THEN RaiseMsg("FileNotFoundError", [kind |-> "file_not_found", file |-> "threats.csv"])
    ELSE IF file.lines = <<>>
    THEN RaiseMsg("ValueError", [kind |-> "no_headers", file |-> "threats.csv"])
    ELSE load_threat_rows(Head(file.lines), Tail(file.lines), 0, <<>>)

\* RiskSource(**row) on the dict of a data line as csv.DictReader gives it:
\* a None key is not a keyword, a None value is not a str
RiskSourceFromRow(row) ==
    LET fields == {<<"id">>, <<"label">>, <<"category">>, <<"motivation">>,
                   <<"capability_level">>, <<"resources">>}
    IN IF None \in DOMAIN row THEN Raise("TypeError")
       ELSE IF ~(fields \subseteq DOMAIN row) THEN Raise("ValidationError")
       ELSE IF \E f \in fields : row[f] = None THEN Raise("ValidationError")
       ELSE RiskSource(row[<<"id">>], row[<<"label">>], row[<<"category">>],
                       row[<<"motivation">>], row[<<"capability_level">>],
                       row[<<"resources">>])

\* the loop of load_risk_sources: no try block around the construction
RECURSIVE load_risk_source_rows(_, _, _)
load_risk_source_rows(fieldnames, rows, sources) ==
    IF rows = <<>> THEN Return(sources)
    ELSE LET made == RiskSourceFromRow(DictRow(fieldnames, Head(rows)))
         IN IF made.exc # "none" THEN made
            ELSE load_risk_source_rows(fieldnames, Tail(rows),
                                       Append(sources, made.val))

load_risk_sources(file) ==
    IF ~file.exists THEN Return(<<>>)
    ELSE IF file.lines = <<>> THEN Return(<<>>)
    ELSE load_risk_source_rows(Head(file.lines), Tail(file.lines), <<>>)

\* a list field without default: the key must be present
required_list_field(clean_row, key) ==
    IF key \notin DOMAIN clean_row THEN Raise("ValidationError")
    ELSE list_field(clean_row, key)

\* the for loop with its try block, given the outcome of the try body of
\* every data line: the first failing line ends the loop with the wrapped
\* error, else the objects are returned in line order
load_rows(file_name, made) ==
    LET failing == {i \in 1..Len(made) : made[i].exc # "none"}
    IN IF failing = {} THEN Return([i \in 1..Len(made) |-> made[i].val])
       ELSE LET first == CHOOSE i \in failing : \A j \in failing : i <= j
            IN RaiseMsg("ValueError", [kind |-> "row_error", file |-> file_name,
                                       row |-> first, cause |-> made[first]])

\* the body of the try block of load_objectives after clean_row is filled
ObjectiveFromRow(clean_row) ==
    LET target_assets == required_list_field(clean_row, <<"target_assets">>)
        attack_scenarios == list_field(clean_row, <<"attack_scenarios">>)
    IN IF ~({<<"id">>, <<"label">>, <<"business_impact">>} \subseteq DOMAIN clean_row)
       THEN Raise("ValidationError")
       ELSE IF target_assets.exc # "none" THEN target_assets
       ELSE IF attack_scenarios.exc # "none" THEN attack_scenarios
       ELSE TargetedObjective(clean_row[<<"id">>], clean_row[<<"label">>],
                              target_assets.val, clean_row[<<"business_impact">>],
                              attack_scenarios.val)

\* a load_objectives that takes a file without header for an empty one
load_objectives_lenient(file) ==
    IF ~file.exists THEN Return(<<>>)
    ELSE IF file.lines = <<>> THEN Return(<<>>)
    ELSE load_rows("objectives.csv",
            [i \in 1..(Len(file.lines) - 1) |->
                ObjectiveFromRow(asset_clean_row(Head(file.lines), file.lines[i + 1]))])

load_objectives(file) ==
    IF ~file.exists THEN Return(<<>>)
    ELSE IF file.lines = <<>>
    THEN RaiseMsg("ValueError", [kind |-> "no_headers", file |-> "objectives.csv"])
    ELSE LET fieldnames == Head(file.lines)
             rows == Tail(file.lines)
         IN load_rows("objectives.csv",
                [i \in 1..Len(rows) |->
                    ObjectiveFromRow(asset_clean_row(fieldnames, rows[i]))])

\* the body of the try block of load_stakeholders after clean_row is filled
StakeholderFromRow(clean_row) ==
    LET responsibilities == required_list_field(clean_row, <<"responsibilities">>)
    IN IF ~({<<"id">>, <<"name">>, <<"type">>, <<"role">>} \subseteq DOMAIN clean_row)
       THEN Raise("ValidationError")
       ELSE IF responsibilities.exc # "none" THEN responsibilities
       ELSE Stakeholder(clean_row[<<"id">>], clean_row[<<"name">>],
                        clean_row[<<"type">>], clean_row[<<"role">>],
                        responsibilities.val,
                        IF <<"contact_info">> \in DOMAIN clean_row
                        THEN clean_row[<<"contact_info">>] ELSE <<>>)

load_stakeholders(file) ==
    IF ~file.exists THEN Return(<<>>)
    ELSE IF file.lines = <<>> THEN Return(<<>>)
    ELSE LET fieldnames == Head(file.lines)
             rows == Tail(file.lines)
         IN load_rows("stakeholders.csv",
                [i \in 1..Len(rows) |->
                    StakeholderFromRow(asset_clean_row(fieldnames, rows[i]))])

\* the body of the try block of load_measures after clean_row is filled
MeasureFromRow(clean_row) ==
    LET target_threats == list_field(clean_row, <<"target_threats">>)
    IN IF ~({<<"id">>, <<"label">>, <<"type">>, <<"description">>,
              <<"effectiveness">>, <<"implementation_cost">>,
              <<"responsible_stakeholder">>} \subseteq DOMAIN clean_row)
       THEN Raise("ValidationError")
       ELSE IF target_threats.exc # "none" THEN target_threats
       ELSE SecurityMeasure(clean_row[<<"id">>], clean_row[<<"label">>],
                            clean_row[<<"type">>], clean_row[<<"description">>],
                            clean_row[<<"effectiveness">>],
                            clean_row[<<"implementation_cost">>],
                            target_threats.val,
                            clean_row[<<"responsible_stakeholder">>])

load_measures(file) ==
    IF ~file.exists THEN Return(<<>>)
    ELSE IF file.lines = <<>> THEN Return(<<>>)
    ELSE LET fieldnames == Head(file.lines)
             rows == Tail(file.lines)
         IN load_rows("measures.csv",
                [i \in 1..Len(rows) |->
                    MeasureFromRow(asset_clean_row(fieldnames, rows[i]))])

\* settings.yaml is [exists, lines]: each line a <<key, value>> pair of the
\* mapping; yaml.safe_load gives None for a file without any line, and
\* Settings(**None) is a TypeError
load_settings(file) ==
    IF ~file.exists THEN Settings(<<>>)
    ELSE IF file.lines = <<>> THEN Raise("TypeError")
    ELSE Settings([k \in {file.lines[i][1] : i \in 1..Len(file.lines)} |->
                    LET i == CHOOSE n \in 1..Len(file.lines) :
                                /\ file.lines[n][1] = k
                                /\ \A j \in (n + 1)..Len(file.lines) :
                                      file.lines[j][1] # k
                    IN file.lines[i][2]])

\* an order that loads the optional files before the required ones
load_order_optional_first == <<"settings", "risk_sources", "objectives", "stakeholders", "measures", "assets", "threats">>

\* the order in which load_all calls the loaders, by file
load_order == <<"assets", "threats", "settings", "risk_sources", "objectives", "stakeholders", "measures">>

\* the loader of each file
load_file(name, config_dir) ==
    CASE name = "assets" -> load_assets(config_dir.assets)
      [] name = "threats" -> load_threats(config_dir.threats)
      [] name = "settings" -> load_settings(config_dir.settings)
      [] name = "risk_sources" -> load_risk_sources(config_dir.risk_sources)
      [] name = "objectives" -> load_objectives(config_dir.objectives)
      [] name = "stakeholders" -> load_stakeholders(config_dir.stakeholders)
      [] name = "measures" -> load_measures(config_dir.measures)

\* the statements of load_all in sequence: the loaders called, each with its
\* outcome, up to and including the first one that raises
RECURSIVE load_calls(_, _, _)
load_calls(config_dir, order, calls) ==
    IF order = <<>> THEN calls
    ELSE LET made == [name |-> Head(order), out |-> load_file(Head(order), config_dir)]
         IN IF made.out.exc # "none" THEN Append(calls, made)
            ELSE load_calls(config_dir, Tail(order), Append(calls, made))

\* what load_all returns or raises, given the loaders it called
load_all_outcome(calls) ==
    IF calls[Len(calls)].out.exc # "none" THEN calls[Len(calls)].out
    ELSE Return([i \in 1..Len(calls) |-> calls[i].out.val])

\* load_all: the 7-tuple (assets, threats, settings, risk_sources,
\* objectives, stakeholders, measures)
load_all(config_dir) ==
    CHOOSE out \in {load_all_outcome(calls) :
                        calls \in {load_calls(config_dir, load_order, <<>>)}} : TRUE

-----------------------------------------------------------------------------
(* load_referentials.  A referential file is [name |-> the stem of its     *)
(* name, lines |-> its CSV lines]; texts are lists of characters.  A cell  *)
(* of the data frame is [type |-> "float" or "str", value |-> ...].       *)

\* ord(c) of the characters of a version text
ord(c) ==
    IF c = "." THEN 46
    ELSE 47 + (CHOOSE i \in 1..10 :
                   <<"0", "1", "2", "3", "4", "5", "6", "7", "8", "9">>[i] = c)

\* a < b of two str: character by character
RECURSIVE str_less(_, _)
str_less(a, b) ==
    IF b = <<>> THEN FALSE
    ELSE IF a = <<>> THEN TRUE
    ELSE IF ord(Head(a)) # ord(Head(b)) THEN ord(Head(a)) < ord(Head(b))
    ELSE str_less(Tail(a), Tail(b))

\* int(digits)
RECURSIVE int_of(_)
int_of(digits) ==
    IF digits = <<>> THEN 0
    ELSE 10 * int_of(SubSeq(digits, 1, Len(digits) - 1)) + ord(digits[Len(digits)]) - 48

\* float(text) of a numeric text
float_of(text) ==
    LET parts == split1(text, ".")
    IN truediv(int_of(parts[1] \o parts[2]), 10 ^ Len(parts[2]))

\* pd.read_csv: the columns and the rows as dicts; a column whose cells all
\* read as decimal numbers (digits, one point, digits) is a float column,
\* any other keeps its texts
read_csv(file) ==
    IF file.lines = <<>> THEN Raise("EmptyDataError")
    ELSE LET columns == Head(file.lines)
             data == Tail(file.lines)
             column_of(name) == CHOOSE c \in 1..Len(columns) : columns[c] = name
             numeric(text) ==
                 /\ \A i \in 1..Len(text) :
                       text[i] \in {".", "0", "1", "2", "3", "4", "5", "6", "7", "8", "9"}
                 /\ Cardinality({i \in 1..Len(text) : text[i] = "."}) = 1
                 /\ text[1] # "." /\ text[Len(text)] # "."
             is_float(name) == \A i \in 1..Len(data) : numeric(data[i][column_of(name)])
         IN Return([columns |-> columns,
                    rows |-> [i \in 1..Len(data) |->
                        [name \in {columns[c] : c \in 1..Len(columns)} |->
                            IF is_float(name)
                            THEN [type |-> "float", value |-> float_of(data[i][column_of(name)])]
                            ELSE [type |-> "str", value |-> data[i][column_of(name)]]]]])

\* the rows one file adds to all_dataframes, with version and source_file;
\* without a version column the version is the text after the last _v of
\* the file name, else 1.0
frame_of(file) ==
    IF Head(file.name) = "_" THEN <<>>
    ELSE LET df == read_csv(file)
             file_version == IF contains(file.name, "_v")
                             THEN rsplit1(file.name, "_v")[2]
                             ELSE <<"1", ".", "0">>
         IN IF df.exc # "none" THEN <<>>
            ELSE [i \in 1..Len(df.val.rows) |->
                    [id |-> df.val.rows[i]["id"],
                     version |-> IF contains(df.val.columns, "version")
                                 THEN df.val.rows[i]["version"]
                                 ELSE [type |-> "str", value |-> file_version],
                     source_file |-> file.name]]

\* pd.concat(all_dataframes)
RECURSIVE concat(_)
concat(files) ==
    IF files = <<>> THEN <<>> ELSE frame_of(Head(files)) \o concat(Tail(files))

\* a < b of two cells of the version column
version_less(a, b) ==
    IF a.type # b.type THEN Raise("TypeError")
    ELSE IF a.type = "float"
    THEN Return(a.value.num * b.value.den < b.value.num * a.value.den)
    ELSE Return(str_less(a.value, b.value))

\* sort_values("version", ascending=False) then drop_duplicates(["id"],
\* keep="first"), on the rows each with its index: of the rows of an id,
\* one that no other exceeds; the sort is not stable, so any of the rows of
\* the highest version may come first
deduplicated(rows) ==
    LET indexed == {[index |-> i, row |-> rows[i]] : i \in 1..Len(rows)}
        highest(r) == \A q \in indexed :
                         q.row.id = r.row.id => ~version_less(r.row.version, q.row.version).val
    IN {kept \in SUBSET indexed :
            /\ \A r \in kept : highest(r)
            /\ \A r \in indexed : \E q \in kept : q.row.id = r.row.id
            /\ \A r, q \in kept : r.row.id = q.row.id => r = q}

\* load_referentials: the frames it may return (as sets of indexed rows) or
\* the exception it raises
load_referentials(config_dir) ==
    IF ~config_dir.referentials.exists THEN {Return({})}
    ELSE LET rows == concat(config_dir.referentials.files)
         IN IF \E i, j \in 1..Len(rows) :
                    version_less(rows[i].version, rows[j].version).exc # "none"
            THEN {Raise("TypeError")}
            ELSE {Return(kept) : kept \in deduplicated(rows)}

-----------------------------------------------------------------------------
(* generator.run and the export command of cli.py                          *)

lower_word(w) ==
    CASE w = "JSON" -> "json" [] w = "XLSX" -> "xlsx" [] w = "MD" -> "md"
      [] w = "Markdown" -> "markdown" [] w = "Excel" -> "excel" [] w = "PDF" -> "pdf"
      [] OTHER -> w

\* s.lower()
lower(s) == [i \in 1..Len(s) |-> lower_word(s[i])]

\* the format itself as the extension of the default file name
extension_as_given(fmt) == lower(fmt)

\* the extension both the command and run give to the output file name
extension(fmt) ==
    IF lower(fmt) \in {<<"xlsx">>, <<"excel">>} THEN <<"xlsx">>
    ELSE IF lower(fmt) = <<"json">> THEN <<"json">>
    ELSE IF lower(fmt) \in {<<"md">>, <<"markdown">>} THEN <<"md">>
    ELSE lower(fmt)

\* a dispatch that falls back to the JSON exporter
exporter_default_json(fmt) ==
    IF lower(fmt) \in {<<"xlsx">>, <<"excel">>} THEN Return("export_excel")
    ELSE IF lower(fmt) \in {<<"md">>, <<"markdown">>} THEN Return("export_markdown")
    ELSE Return("export_json")

\* the exporter run calls for the format
exporter(fmt) ==
    IF lower(fmt) \in {<<"xlsx">>, <<"excel">>} THEN Return("export_excel")
    ELSE IF lower(fmt) = <<"json">> THEN Return("export_json")
    ELSE IF lower(fmt) \in {<<"md">>, <<"markdown">>} THEN Return("export_markdown")
    ELSE RaiseMsg("ValueError", [kind |-> "unsupported_format", fmt |-> fmt])

\* the dumps of the records, last record first
dump_all_reversed(records) ==
    [i \in 1..Len(records) |-> model_dump(records[Len(records) - i + 1])]

\* [x.model_dump() for x in records]
dump_all(records) == [i \in 1..Len(records) |-> model_dump(records[i])]

\* the export_data dict of run
export_data(loaded, risk_results) ==
    [assets |-> dump_all(loaded[1]),
     threats |-> dump_all(loaded[2]),
     risk_sources |-> dump_all(loaded[4]),
     objectives |-> dump_all(loaded[5]),
     stakeholders |-> dump_all(loaded[6]),
     measures |-> dump_all(loaded[7]),
     risk_results |-> risk_results,
     settings |-> model_dump(loaded[3])]

\* an export that writes the risks last first
export_json_risks_reversed(data) ==
    LET get(key, default) == IF key \in DOMAIN data THEN data[key] ELSE default
        risk_results == get("risk_results", <<>>)
    IN [written |-> [k \in DOMAIN data \ {"risk_results", "assets", "threats", "settings"} |->
                        data[k]]
                    @@ [metadata |-> [total_risks |-> Len(get("risk_results", <<>>)),
                                      total_assets |-> Len(get("assets", <<>>)),
                                      total_threats |-> Len(get("threats", <<>>)),
                                      export_timestamp |-> <<"2024-01-01T00:00:00Z">>],
                        risks |-> [i \in 1..Len(risk_results) |->
                                      risk_results[Len(risk_results) - i + 1]],
                        assets |-> get("assets", <<>>),
                        threats |-> get("threats", <<>>),
                        settings |-> get("settings", <<>>)],
        data |-> data]

\* export_json: the document json.dump writes (dicts as objects, lists as
\* arrays in their order; the ** entries come last and so take precedence)
\* and the input document after the call; get is data.get(key, default)
export_json(data) ==
    LET get(key, default) == IF key \in DOMAIN data THEN data[key] ELSE default
    IN [written |-> [k \in DOMAIN data \ {"risk_results", "assets", "threats", "settings"} |->
                        data[k]]
                    @@ [metadata |-> [total_risks |-> Len(get("risk_results", <<>>)),
                                      total_assets |-> Len(get("assets", <<>>)),
                                      total_threats |-> Len(get("threats", <<>>)),
                                      export_timestamp |-> <<"2024-01-01T00:00:00Z">>],
                        risks |-> get("risk_results", <<>>),
                        assets |-> get("assets", <<>>),
                        threats |-> get("threats", <<>>),
                        settings |-> get("settings", <<>>)],
        data |-> data]

\* the statements of run after the data is loaded: returns the report written
run_loaded(loaded, out_dir, fmt, output_filename) ==
    LET risk_results == calculate_risk_levels(loaded[1], loaded[2])
    IN IF risk_results.exc # "none" THEN risk_results
       ELSE IF exporter(fmt).exc # "none" THEN exporter(fmt)
       ELSE Return([dir |-> out_dir,
                    name |-> IF output_filename = <<>>
                                \/ output_filename = <<"ebios_risk_assessment", ".", "xlsx">>
                             THEN <<"ebios_risk_assessment", ".">> \o extension(fmt)
                             ELSE output_filename,
                    exporter |-> exporter(fmt).val,
                    invoked |-> <<exporter(fmt).val>>,
                    data |-> export_data(loaded, risk_results.val)])

\* generator.run (the loaded data is bound once, as a value)
run(cfg_dir, out_dir, fmt, output_filename) ==
    CHOOSE out \in {IF loaded.exc # "none" THEN loaded
                    ELSE run_loaded(loaded.val, out_dir, fmt, output_filename) :
                        loaded \in {load_all(cfg_dir)}} : TRUE

\* the output file name the export command passes to run
export_filename(fmt, output_file) ==
    (IF output_file = <<>> THEN <<"ebios_risk_assessment">> ELSE output_file)
        \o <<".">> \o extension(fmt)

\* the except clauses of the export command: what is printed and the status
export_outcome(out) ==
    IF out.exc = "none"
    THEN [op |-> "export", exit |-> 0, said |-> "Risk assessment completed successfully", error |-> out.exc]
    ELSE IF out.exc = "FileNotFoundError"
    THEN [op |-> "export", exit |-> 1, said |-> "Error", error |-> out]
    ELSE IF out.exc \in {"ValueError", "ValidationError"}
    THEN [op |-> "export", exit |-> 1, said |-> "Configuration error", error |-> out]
    ELSE [op |-> "export", exit |-> 1, said |-> "Unexpected error", error |-> out]

\* the warnings the validate command of ebiosrm_core/cli.py prints;
\* duplicate_ids is len({x.<field> for x in records}) != len(records)
validate_warnings(loaded) ==
    LET duplicate_ids(records, field) ==
            Cardinality({records[i][field] : i \in 1..Len(records)}) # Len(records)
    IN (IF duplicate_ids(loaded[1], "id")
        THEN <<"Duplicate asset IDs detected">> ELSE <<>>)
       \o (IF duplicate_ids(loaded[2], "sr_id")
           THEN <<"Duplicate threat IDs detected">> ELSE <<>>)
       \o (IF duplicate_ids(loaded[5], "id")
           THEN <<"Duplicate objective IDs detected">> ELSE <<>>)

\* the except clauses of a validate command
validate_failure(op, out) ==
    IF out.exc = "FileNotFoundError"
    THEN [op |-> op, exit |-> 1, said |-> "Error", warnings |-> <<>>, error |-> out]
    ELSE IF out.exc \in {"ValueError", "ValidationError"}
    THEN [op |-> op, exit |-> 1, said |-> "Validation error", warnings |-> <<>>, error |-> out]
    ELSE [op |-> op, exit |-> 1, said |-> "Unexpected error", warnings |-> <<>>, error |-> out]

\* a validate command that refuses duplicate ids
validate_outcome_strict(loaded) ==
    IF loaded.exc # "none" THEN validate_failure("validate", loaded)
    ELSE IF validate_warnings(loaded.val) # <<>>
    THEN validate_failure("validate", Raise("ValueError"))
    ELSE [op |-> "validate", exit |-> 0, said |-> "Validation successful",
          warnings |-> <<>>, error |-> "none"]

\* the validate command of ebiosrm_core/cli.py, given what load_all returned
validate_outcome(loaded) ==
    IF loaded.exc # "none" THEN validate_failure("validate", loaded)
    ELSE [op |-> "validate", exit |-> 0, said |-> "Validation successful",
          warnings |-> validate_warnings(loaded.val), error |-> "none"]

\* the validate command of src/cli.py, given what load_all returned: the
\* result is unpacked into the three names assets, threats, settings, which
\* raises ValueError unless the values are as many as the names
src_cli_validate_outcome(loaded) ==
    LET unpack(values, targets) ==
            IF Len(values) = targets THEN Return(values)
            ELSE RaiseMsg("ValueError", [kind |-> "unpack", expected |-> targets,
                                         got |-> Len(values)])
        duplicate_ids(records, field) ==
            Cardinality({records[i][field] : i \in 1..Len(records)}) # Len(records)
    IN IF loaded.exc # "none" THEN validate_failure("src_cli_validate", loaded)
       ELSE IF unpack(loaded.val, 3).exc # "none"
       THEN validate_failure("src_cli_validate", unpack(loaded.val, 3))
       ELSE [op |-> "src_cli_validate", exit |-> 0, said |-> "Validation successful",
             warnings |-> (IF duplicate_ids(loaded.val[1], "id")
                           THEN <<"Duplicate asset IDs detected">> ELSE <<>>)
                          \o (IF duplicate_ids(loaded.val[2], "sr_id")
                              THEN <<"Duplicate threat IDs detected">> ELSE <<>>),
             error |-> "none"]

\* the except clauses of the export command of src/cli.py
src_cli_export_outcome(out) ==
    IF out.exc = "none"
    THEN [op |-> "src_cli_export", exit |-> 0, said |-> "Risk assessment completed successfully", error |-> out.exc]
    ELSE IF out.exc = "FileNotFoundError"
    THEN [op |-> "src_cli_export", exit |-> 1, said |-> "Error", error |-> out]
    ELSE IF out.exc \in {"ValueError", "ValidationError"}
    THEN [op |-> "src_cli_export", exit |-> 1, said |-> "Configuration error", error |-> out]
    ELSE [op |-> "src_cli_export", exit |-> 1, said |-> "Unexpected error", error |-> out]

-----------------------------------------------------------------------------
(* Inputs of the record types                                              *)

\* sep.join(ps)
RECURSIVE join(_, _)
join(ps, sep) ==
    IF Len(ps) = 1 THEN Head(ps) ELSE Head(ps) \o <<sep>> \o join(Tail(ps), sep)

SeqsUpTo(S, n) == UNION {[1..k -> S] : k \in 1..n}

LevelWords == {"Low", "Medium", "High", "Critical", "low", "Unknown"}

\* the comma-free pieces an operational_steps input is made of
Pieces ==
    {<<"A", ":", w>> : w \in LevelWords}
    \cup {<<" ", "A", ":", " ", "High", " ">>, <<"A", ":", "High", ":", "Low">>}
    \cup {<<"A">>}

\* the empty string and the strings of up to MaxSteps comma-separated pieces
StepsInputs == {<<>>} \cup {join(ps, ",") : ps \in SeqsUpTo(Pieces, MaxSteps)}

CriticalityInputs ==
    CriticalityLevel \cup {<<"low">>, <<"critical">>, <<"CRITICAL">>, <<"Unknown">>, <<>>}

SeverityInputs == 0..MaxSeverity

NoCall == [op |-> "none"]

-----------------------------------------------------------------------------
(* Models specification: one record is constructed (once: records are     *)
(* immutable) and its methods are then called any number of times          *)

Absent == [exists |-> FALSE, lines |-> <<>>]

\* the files of a configuration directory (fs is a record over these)
FileNames == {load_order[i] : i \in 1..Len(load_order)}

NoReport == [written |-> FALSE]

InitIdleEngine ==
    /\ assets = <<>>
    /\ threats = <<>>
    /\ returned = NoCall

InitIdlePipeline ==
    /\ fs = [name \in FileNames |-> Absent]
    /\ cli = NoCall
    /\ report = NoReport
    /\ call = NoCall

InitModels ==
    /\ asset = <<>>
    /\ threat = <<>>
    /\ ret = NoCall
    /\ InitIdleEngine
    /\ InitIdlePipeline

NewAsset(criticality) ==
    LET out == Asset(<<"A1">>, <<"Data">>, <<"Database">>, criticality)
    IN /\ ret = NoCall
       /\ asset' = IF out.exc = "none" THEN <<out.val>> ELSE <<>>
       /\ threat' = <<>>
       /\ ret' = [op |-> "Asset", arg |-> criticality, out |-> out]
       /\ UNCHANGED <<engineVars, pipelineVars>>

NewThreat(operational_steps) ==
    LET out == Threat(<<"SR1">>, <<"OV1">>, <<"Attack">>, operational_steps, <<>>, <<>>)
    IN /\ ret = NoCall
       /\ threat' = IF out.exc = "none" THEN <<out.val>> ELSE <<>>
       /\ asset' = <<>>
       /\ ret' = [op |-> "Threat", arg |-> operational_steps, out |-> out]
       /\ UNCHANGED <<engineVars, pipelineVars>>

CallSeverityScore ==
    /\ asset # <<>>
    /\ ret' = [op |-> "severity_score", out |-> Return(severity_score(asset[1]))]
    /\ UNCHANGED <<asset, threat>>
    /\ UNCHANGED <<engineVars, pipelineVars>>

CallLikelihoodScore ==
    /\ threat # <<>>
    /\ ret' = [op |-> "likelihood_score", out |-> likelihood_score(threat[1])]
    /\ UNCHANGED <<asset, threat>>
    /\ UNCHANGED <<engineVars, pipelineVars>>

CallRiskLevel(max_asset_severity) ==
    /\ threat # <<>>
    /\ ret' = [op |-> "risk_level", arg |-> max_asset_severity,
                out |-> risk_level(threat[1], max_asset_severity)]
    /\ UNCHANGED <<asset, threat>>
    /\ UNCHANGED <<engineVars, pipelineVars>>

NextModels ==
    \/ ret = NoCall /\ \E c \in CriticalityInputs : NewAsset(c)
    \/ ret = NoCall /\ \E s \in StepsInputs : NewThreat(s)
    \/ CallSeverityScore
    \/ CallLikelihoodScore
    \/ \E s \in SeverityInputs : CallRiskLevel(s)

SpecModels == InitModels /\ [][NextModels]_vars

-----------------------------------------------------------------------------
(* Engine specification: a caller builds a list of assets and a list of   *)
(* threats from validated records and calls calculate_risk_levels on them  *)

AssetIds == {<<"A1">>, <<"A2">>}

\* the scenarios of the threats: sr_id, ov_id, risk_sources and
\* targeted_objectives
Scenarios ==
    {<<<<"SR1">>, <<"OV1">>, <<>>, <<>>>>,
     <<<<"SR2">>, <<"OV2">>, <<<<"RS1">>>>, <<<<"O1">>>>>>}

EngineSteps ==
    {<<"A", ":", "Unknown">>,
     <<"A", ":", "Medium", ",", "A", ":", "High">>,
     <<"A", ":", "Critical">>}

InitIdleModels ==
    /\ asset = <<>>
    /\ threat = <<>>
    /\ ret = NoCall

InitEngine ==
    /\ InitIdleModels
    /\ InitIdleEngine
    /\ InitIdlePipeline

AddAsset(id, criticality) ==
    LET out == Asset(id, <<"Data">>, <<"Database">>, criticality)
    IN /\ returned = NoCall
       /\ Len(assets) < MaxAssets
       /\ out.exc = "none"
       /\ assets' = Append(assets, out.val)
       /\ UNCHANGED <<threats, returned>>
       /\ UNCHANGED <<modelVars, pipelineVars>>

AddThreat(scenario, operational_steps) ==
    LET out == Threat(scenario[1], scenario[2], <<"Attack">>, operational_steps,
                      scenario[3], scenario[4])
    IN /\ returned = NoCall
       /\ Len(threats) < MaxThreats
       /\ out.exc = "none"
       /\ threats' = Append(threats, out.val)
       /\ UNCHANGED <<assets, returned>>
       /\ UNCHANGED <<modelVars, pipelineVars>>

CalculateRiskLevels ==
    /\ returned = NoCall
    /\ returned' = [op |-> "calculate_risk_levels",
                     out |-> calculate_risk_levels(assets, threats)]
    /\ UNCHANGED <<assets, threats>>
    /\ UNCHANGED <<modelVars, pipelineVars>>

NextEngine ==
    \/ \E id \in AssetIds, c \in CriticalityLevel : AddAsset(id, c)
    \/ \E scenario \in Scenarios, s \in EngineSteps : AddThreat(scenario, s)
    \/ CalculateRiskLevels

SpecEngine == InitEngine /\ [][NextEngine]_vars

-----------------------------------------------------------------------------
(* Pipeline specification: the configuration files are written and the    *)
(* export command is run on them                                           *)

AssetsHeader == <<<<"id">>, <<"type">>, <<"label">>, <<"criticality">>>>

AssetsHeaders == {AssetsHeader, <<<<"id">>, <<"label">>, <<"criticality">>>>}

AssetLines ==
    {<<<<"A1">>, <<"Data">>, <<"Database">>, <<"Critical">>>>,
     <<<<"A2">>, <<"System">>, <<"Server">>, <<" ", "Low">>>>,
     <<<<"A3">>, <<"Data">>, <<"Logs">>, <<"critical">>>>}

ThreatsHeader == <<<<"sr_id">>, <<"ov_id">>, <<"strategic_path">>, <<"operational_steps">>>>

ThreatsHeaders == {ThreatsHeader, <<<<"sr_id">>, <<"ov_id">>, <<"strategic_path">>>>}

ThreatLines ==
    {<<<<"SR1">>, <<"OV1">>, <<"Attack">>, <<"S1", ":", "High", ",", "S2", ":", "High">>>>,
     <<<<"SR2">>, <<"OV2">>, <<"Fraud">>, <<"S1", ":", "Unknown">>>>,
     <<<<"SR3">>, <<"OV3">>, <<"Theft">>, <<"invalid_format">>>>}

\* the files with one of the headers and up to MaxRows of the data lines
CsvFiles(headers, data) ==
    {[exists |-> TRUE, lines |-> <<>>]}
    \cup {[exists |-> TRUE, lines |-> <<h>> \o rows] :
            h \in headers, rows \in {<<>>} \cup SeqsUpTo(data, MaxRows)}

Formats == {<<"xlsx">>, <<"excel">>, <<"json">>, <<"JSON">>, <<"md">>, <<"pdf">>}

OutputFiles == {<<>>, <<"report">>}

InitPipeline ==
    /\ InitIdleModels
    /\ InitIdleEngine
    /\ InitIdlePipeline

WriteAssetsCsv(file) ==
    /\ cli = NoCall
    /\ ~fs.assets.exists
    /\ fs' = [fs EXCEPT !.assets = file]
    /\ UNCHANGED <<cli, report, call>>
    /\ UNCHANGED <<modelVars, engineVars>>

WriteThreatsCsv(file) ==
    /\ cli = NoCall
    /\ ~fs.threats.exists
    /\ fs' = [fs EXCEPT !.threats = file]
    /\ UNCHANGED <<cli, report, call>>
    /\ UNCHANGED <<modelVars, engineVars>>

ExportCmd(fmt, output_file) ==
    LET out == run(fs, <<"build">>, fmt, export_filename(fmt, output_file))
    IN /\ cli = NoCall
       /\ cli' = export_outcome(out)
       /\ report' = IF out.exc = "none"
                     THEN [written |-> TRUE, file |-> out.val]
                     ELSE report
       /\ UNCHANGED <<fs, call>>
       /\ UNCHANGED <<modelVars, engineVars>>

\* the validate command of ebiosrm_core/cli.py
ValidateCmd ==
    /\ cli = NoCall
    /\ \E loaded \in {load_all(fs)} : cli' = validate_outcome(loaded)
    /\ UNCHANGED <<fs, report, call>>
    /\ UNCHANGED <<modelVars, engineVars>>

\* the validate command of src/cli.py
SrcCliValidateCmd ==
    /\ cli = NoCall
    /\ \E loaded \in {load_all(fs)} : cli' = src_cli_validate_outcome(loaded)
    /\ UNCHANGED <<fs, report, call>>
    /\ UNCHANGED <<modelVars, engineVars>>

\* the export command of src/cli.py: run with its default file name
SrcCliExportCmd(fmt) ==
    /\ cli = NoCall
    /\ \E out \in {run(fs, <<"build">>, fmt, <<"ebios_risk_assessment", ".", "xlsx">>)} :
          /\ cli' = src_cli_export_outcome(out)
          /\ report' = IF out.exc = "none"
                        THEN [written |-> TRUE, file |-> out.val]
                        ELSE report
    /\ UNCHANGED <<fs, call>>
    /\ UNCHANGED <<modelVars, engineVars>>

NextPipeline ==
    \/ \E f \in CsvFiles(AssetsHeaders, AssetLines) : WriteAssetsCsv(f)
    \/ \E f \in CsvFiles(ThreatsHeaders, ThreatLines) : WriteThreatsCsv(f)
    \/ \E fmt \in Formats, o \in OutputFiles : ExportCmd(fmt, o)
    \/ ValidateCmd
    \/ SrcCliValidateCmd
    \/ \E fmt \in Formats : SrcCliExportCmd(fmt)

SpecPipeline == InitPipeline /\ [][NextPipeline]_vars

-----------------------------------------------------------------------------
(* Loader specification: files are written into an empty configuration    *)
(* directory, then one loader, load_all or run is called on it.  A         *)
(* directory holds either one file of the full input set of its kind or    *)
(* any combination of the sample files.                                    *)

PaddedAssetsHeader == <<<<" ", "id", " ">>, <<"type">>, <<"label">>, <<"criticality">>>>

LoaderAssetLines ==
    AssetLines
    \cup {<<<<"A4">>, <<"Data">>>>,
          <<<<"A5">>, <<"Data">>, <<"Backups">>, <<"High">>, <<"extra">>>>}

ListsThreatsHeader == ThreatsHeader \o <<<<"risk_sources">>, <<"targeted_objectives">>>>

PaddedThreatsHeader == <<<<" ", "sr_id", " ">>, <<"ov_id">>, <<"strategic_path">>, <<"operational_steps">>>>

LoaderThreatsHeaders == ThreatsHeaders \cup {ListsThreatsHeader, PaddedThreatsHeader}

LoaderThreatLines ==
    ThreatLines
    \cup {<<<<"SR4">>, <<"OV4">>, <<"Leak">>, <<"S1", ":", "Low">>,
            <<"RS1", ",", " ", "RS2">>, <<"O1">>>>,
          <<<<"SR5">>, <<"OV5">>, <<"Abuse">>, <<"S1", ":", "Medium">>, <<>>, <<>>>>,
          <<<<"SR6">>, <<"OV6">>, <<"Spoof">>>>}

RiskSourcesHeader == <<<<"id">>, <<"label">>, <<"category">>, <<"motivation">>, <<"capability_level">>, <<"resources">>>>

RiskSourceLines ==
    {<<<<"RS1">>, <<"Gang">>, <<"cybercriminal">>, <<"money">>, <<"High">>, <<"tools">>>>,
     <<<<"RS2">>, <<"Clerk">>, <<"insider">>, <<"revenge">>, <<"low">>, <<"access">>>>,
     <<<<"RS3">>, <<"State">>, <<"state">>>>,
     <<<<"RS4">>, <<"Kid">>, <<"amateur">>, <<"fun">>, <<"Low">>, <<"none">>, <<"extra">>>>}

ObjectivesHeader == <<<<"id">>, <<"label">>, <<"target_assets">>, <<"business_impact">>, <<"attack_scenarios">>>>

ObjectiveLines ==
    {<<<<"O1">>, <<"Steal">>, <<"A1", ",", " ", "A2">>, <<"High">>, <<"SR1">>>>,
     <<<<"O2">>, <<"Stop">>, <<>>, <<"Low">>, <<"SR2">>>>,
     <<<<"O3">>, <<"Alter">>, <<"A1">>, <<"Severe">>, <<"SR1">>>>}

StakeholdersHeader == <<<<"id">>, <<"name">>, <<"type">>, <<"role">>, <<"responsibilities">>, <<"contact_info">>>>

StakeholderLines ==
    {<<<<"ST1">>, <<"CISO">>, <<"Internal">>, <<"lead">>, <<"policy", ",", "audit">>, <<"mail">>>>,
     <<<<"ST2">>, <<"Vendor">>, <<"External">>, <<"supply">>, <<>>, <<>>>>,
     <<<<"ST3">>, <<"Guest">>, <<"Visitor">>, <<"none">>, <<"none">>, <<>>>>}

MeasuresHeader == <<<<"id">>, <<"label">>, <<"type">>, <<"description">>, <<"effectiveness">>, <<"implementation_cost">>, <<"target_threats">>, <<"responsible_stakeholder">>>>

MeasureLines ==
    {<<<<"M1">>, <<"MFA">>, <<"Preventive">>, <<"tokens">>, <<"High">>, <<"Low">>,
        <<"SR1", ",", "SR2">>, <<"ST1">>>>,
     <<<<"M2">>, <<"Logs">>, <<"Detective">>, <<"siem">>, <<"Medium">>, <<"Medium">>,
        <<>>, <<"ST1">>>>,
     <<<<"M3">>, <<"Hope">>, <<"Magic">>, <<"none">>, <<"Low">>, <<"Low">>,
        <<"SR1">>, <<"ST1">>>>}

SettingsFiles ==
    {[exists |-> TRUE, lines |-> <<>>],
     [exists |-> TRUE, lines |-> <<<<<<"output_dir">>, <<"out">>>>>>],
     [exists |-> TRUE, lines |-> <<<<<<"output_dir">>, <<"out", "/">>>>>>],
     [exists |-> TRUE, lines |-> <<<<<<"output_dir">>, <<>>>>>>],
     [exists |-> TRUE, lines |-> <<<<<<"output_dir">>, <<"out", "/", "/">>>>>>],
     [exists |-> TRUE, lines |-> <<<<<<"excel_template">>, <<"t", ".", "xlsx">>>>>>]}

\* the full input set of each file of the directory
Files(name) ==
    CASE name = "assets" ->
            CsvFiles(AssetsHeaders \cup {PaddedAssetsHeader}, LoaderAssetLines)
      [] name = "threats" -> CsvFiles(LoaderThreatsHeaders, LoaderThreatLines)
      [] name = "settings" -> SettingsFiles
      [] name = "risk_sources" -> CsvFiles({RiskSourcesHeader}, RiskSourceLines)
      [] name = "objectives" -> CsvFiles({ObjectivesHeader}, ObjectiveLines)
      [] name = "stakeholders" -> CsvFiles({StakeholdersHeader}, StakeholderLines)
      [] name = "measures" -> CsvFiles({MeasuresHeader}, MeasureLines)

\* a file of the header and the given data lines
CsvFile(header, rows) == [exists |-> TRUE, lines |-> <<header>> \o rows]

\* the sample files: for each kind one that loads two records (not in the
\* order of their ids; the two objectives are the same line twice) and one
\* that fails to load
Samples(name) ==
    CASE name = "assets" ->
            {CsvFile(AssetsHeader,
                     <<<<<<"A2">>, <<"System">>, <<"Server">>, <<" ", "Low">>>>,
                       <<<<"A1">>, <<"Data">>, <<"Database">>, <<"Critical">>>>>>),
             CsvFile(AssetsHeader, <<<<<<"A3">>, <<"Data">>, <<"Logs">>, <<"critical">>>>>>)}
      [] name = "threats" ->
            {CsvFile(ThreatsHeader,
                     <<<<<<"SR2">>, <<"OV2">>, <<"Fraud">>, <<"S1", ":", "Unknown">>>>,
                       <<<<"SR1">>, <<"OV1">>, <<"Attack">>,
                         <<"S1", ":", "High", ",", "S2", ":", "High">>>>>>),
             CsvFile(ThreatsHeader,
                     <<<<<<"SR3">>, <<"OV3">>, <<"Theft">>, <<"invalid_format">>>>>>)}
      [] name = "settings" ->
            {[exists |-> TRUE, lines |-> <<<<<<"output_dir">>, <<"out">>>>>>],
             [exists |-> TRUE, lines |-> <<>>]}
      [] name = "risk_sources" ->
            {CsvFile(RiskSourcesHeader,
                     <<<<<<"RS4">>, <<"Kid">>, <<"amateur">>, <<"fun">>, <<"Low">>, <<"none">>>>,
                       <<<<"RS1">>, <<"Gang">>, <<"cybercriminal">>, <<"money">>,
                         <<"High">>, <<"tools">>>>>>),
             CsvFile(RiskSourcesHeader,
                     <<<<<<"RS2">>, <<"Clerk">>, <<"insider">>, <<"revenge">>,
                         <<"low">>, <<"access">>>>>>)}
      [] name = "objectives" ->
            {CsvFile(ObjectivesHeader,
                     <<<<<<"O1">>, <<"Steal">>, <<"A1", ",", " ", "A2">>, <<"High">>,
                         <<"SR1">>>>,
                       <<<<"O1">>, <<"Steal">>, <<"A1", ",", " ", "A2">>, <<"High">>,
                         <<"SR1">>>>>>),
             [exists |-> TRUE, lines |-> <<>>]}
      [] name = "stakeholders" ->
            {CsvFile(StakeholdersHeader,
                     <<<<<<"ST4">>, <<"DPO">>, <<"Regulatory">>, <<"privacy">>, <<"gdpr">>, <<>>>>,
                       <<<<"ST1">>, <<"CISO">>, <<"Internal">>, <<"lead">>,
                         <<"policy", ",", "audit">>, <<"mail">>>>>>),
             CsvFile(StakeholdersHeader,
                     <<<<<<"ST3">>, <<"Guest">>, <<"Visitor">>, <<"none">>, <<"none">>, <<>>>>>>)}
      [] name = "measures" ->
            {CsvFile(MeasuresHeader,
                     <<<<<<"M4">>, <<"Backup">>, <<"Recovery">>, <<"tapes">>, <<"High">>,
                         <<"Medium">>, <<"SR2">>, <<"ST1">>>>,
                       <<<<"M1">>, <<"MFA">>, <<"Preventive">>, <<"tokens">>, <<"High">>,
                         <<"Low">>, <<"SR1", ",", "SR2">>, <<"ST1">>>>>>),
             CsvFile(MeasuresHeader,
                     <<<<<<"M3">>, <<"Hope">>, <<"Magic">>, <<"none">>, <<"Low">>, <<"Low">>,
                         <<"SR1">>, <<"ST1">>>>>>)}

\* the formats run is called with
RunFormats == Formats \cup {<<"markdown">>, <<"Markdown">>, <<"XLSX">>, <<"PDF">>}

\* the names of the files present in the directory
Present == {name \in FileNames : fs[name].exists}

\* no output_filename, the default one of run, and one given by the caller
RunFilenames == {<<>>, <<"ebios_risk_assessment", ".", "xlsx">>, <<"report", ".", "out">>}

\* the calls of run: every format with each file name, the other directory
\* with no file name
RunCalls ==
    {[out_dir |-> <<"build">>, fmt |-> fmt, output_filename |-> o] :
        fmt \in RunFormats, o \in RunFilenames \ {<<>>}}
    \cup {[out_dir |-> <<"out">>, fmt |-> fmt, output_filename |-> <<>>] :
              fmt \in RunFormats}

InitLoader ==
    /\ InitIdleModels
    /\ InitIdleEngine
    /\ InitIdlePipeline

WriteFile(name, file) ==
    /\ call = NoCall
    /\ ~fs[name].exists
    /\ \/ Present = {}
       \/ /\ file \in Samples(name)
          /\ \A other \in Present : fs[other] \in Samples(other)
    /\ fs' = [fs EXCEPT ![name] = file]
    /\ UNCHANGED <<cli, report, call>>
    /\ UNCHANGED <<modelVars, engineVars>>

\* one loader is called on the directory
CallLoader(name) ==
    /\ call = NoCall
    /\ call' = [op |-> "load", name |-> name, out |-> load_file(name, fs)]
    /\ UNCHANGED <<fs, cli, report>>
    /\ UNCHANGED <<modelVars, engineVars>>

\* load_all is called on the directory; read lists the files whose loader
\* it called
CallLoadAll ==
    /\ call = NoCall
    /\ \E calls \in {load_calls(fs, load_order, <<>>)} :
          call' = [op |-> "load_all", out |-> load_all_outcome(calls),
                   read |-> [i \in 1..Len(calls) |-> calls[i].name]]
    /\ UNCHANGED <<fs, cli, report>>
    /\ UNCHANGED <<modelVars, engineVars>>

\* run is called on the directory
CallRun(out_dir, fmt, output_filename) ==
    /\ call = NoCall
    /\ \E out \in {run(fs, out_dir, fmt, output_filename)} :
          /\ call' = [op |-> "run", out_dir |-> out_dir, fmt |-> fmt,
                      output_filename |-> output_filename, out |-> out]
          /\ report' = IF out.exc = "none"
                        THEN [written |-> TRUE, file |-> out.val]
                        ELSE report
    /\ UNCHANGED <<fs, cli>>
    /\ UNCHANGED <<modelVars, engineVars>>

\* the key sets of the documents export_json is called with: the one run
\* assembles and the two of the tests
ExportKeys ==
    {{"assets", "threats", "risk_sources", "objectives", "stakeholders", "measures",
      "risk_results", "settings"},
     {"assets", "threats", "risk_results", "settings"},
     {"assets", "threats"}}

\* export_json is called on a document made from the directory
CallExportJson(keys) ==
    /\ call = NoCall
    /\ \E loaded \in {load_all(fs)} :
          /\ loaded.exc = "none"
          /\ \E risk_results \in {calculate_risk_levels(loaded.val[1], loaded.val[2])} :
                /\ risk_results.exc = "none"
                /\ \E data \in {[k \in keys |-> export_data(loaded.val, risk_results.val)[k]]} :
                      call' = [op |-> "export_json", data |-> data,
                               out |-> Return(export_json(data))]
    /\ UNCHANGED <<fs, cli, report>>
    /\ UNCHANGED <<modelVars, engineVars>>

NextLoader ==
    \/ call = NoCall /\ \E name \in FileNames :
          \E file \in (IF Present = {} THEN Files(name) ELSE Samples(name)) :
              WriteFile(name, file)
    \/ \E name \in FileNames : CallLoader(name)
    \/ CallLoadAll
    \/ \E c \in RunCalls : CallRun(c.out_dir, c.fmt, c.output_filename)
    \/ \E keys \in ExportKeys : CallExportJson(keys)

SpecLoader == InitLoader /\ [][NextLoader]_vars

-----------------------------------------------------------------------------
(* Referentials specification: files are written into the referentials    *)
(* directory of a configuration directory in any order, then               *)
(* load_referentials is called.                                            *)

MaxRefFiles == 2

MaxRefRows == 2

\* the referential files: empty, or with an id column and possibly a
\* version column
RefFiles ==
    LET names == {<<"iso">>, <<"nist", "_v", "9", ".", "0">>,
                  <<"nist", "_v", "1", "0", ".", "0">>, <<"_", "manifest">>}
        ids == {<<"C", "1">>, <<"C", "2">>}
        versions == {<<"9", ".", "0">>, <<"1", "0", ".", "0">>}
    IN {[name |-> n, lines |-> <<>>] : n \in names}
       \cup {[name |-> n, lines |-> <<<<"id">>>> \o rows] :
                 n \in names,
                 rows \in {<<>>} \cup SeqsUpTo({<<id>> : id \in ids}, MaxRefRows)}
       \cup {[name |-> n, lines |-> <<<<"id", "version">>>> \o rows] :
                 n \in names,
                 rows \in {<<>>} \cup SeqsUpTo({<<id, v>> : id \in ids, v \in versions},
                                              MaxRefRows)}

\* a configuration directory with or without a referentials directory
InitReferentials ==
    /\ InitIdleModels
    /\ InitIdleEngine
    /\ \E exists \in BOOLEAN : fs = [referentials |-> [exists |-> exists, files |-> <<>>]]
    /\ cli = NoCall
    /\ report = NoReport
    /\ call = NoCall

\* a file is added; the order of the files is the order glob lists them in
WriteReferential(file) ==
    /\ call = NoCall
    /\ fs.referentials.exists
    /\ Len(fs.referentials.files) < MaxRefFiles
    /\ \A i \in 1..Len(fs.referentials.files) : fs.referentials.files[i].name # file.name
    /\ fs' = [fs EXCEPT !.referentials.files = Append(@, file)]
    /\ UNCHANGED <<cli, report, call>>
    /\ UNCHANGED <<modelVars, engineVars>>

CallLoadReferentials ==
    /\ call = NoCall
    /\ \E out \in load_referentials(fs) :
          call' = [op |-> "load_referentials", out |-> out]
    /\ UNCHANGED <<fs, cli, report>>
    /\ UNCHANGED <<modelVars, engineVars>>

NextReferentials ==
    \/ \E file \in RefFiles : WriteReferential(file)
    \/ CallLoadReferentials

SpecReferentials == InitReferentials /\ [][NextReferentials]_vars

-----------------------------------------------------------------------------
(* Properties of the record types (SpecModels)                             *)

\* the decision matrix, row = severity 1..4, column = truncated likelihood 1..4
DecisionMatrix == <<
    <<"Low", "Low", "Medium", "High">>,
    <<"Low", "Medium", "Medium", "High">>,
    <<"Medium", "Medium", "High", "Critical">>,
    <<"Medium", "High", "Critical", "Critical">> >>

Labels == {"Low", "Medium", "High", "Critical"}

LevelValue(w) == CASE w = "Low" -> 1 [] w = "Medium" -> 2 [] w = "High" -> 3 [] w = "Critical" -> 4

\* the likelihood of the threat under test
Likelihood == likelihood_score(threat[1]).val

\* C1: for every threat and every integer severity s >= 1, risk_level(s)
\* returns the matrix entry at row min(s,4) and column min(trunc(likelihood),4):
\* severities above 4 use the Critical row without an out-of-bounds access,
\* a fractional likelihood uses the column of its integer part, severity 4
\* with likelihood 3.0 gives Critical and severity 1 with likelihood 1.0 Low.
C1_RiskLevelIsMatrixEntry ==
    (ret.op = "risk_level" /\ ret.arg >= 1) =>
        LET s == ret.arg
            row == IF s < 4 THEN s ELSE 4
            whole == CHOOSE n \in 0..4 : n * Likelihood.den <= Likelihood.num
                                         /\ Likelihood.num < (n + 1) * Likelihood.den
            col == IF whole < 4 THEN whole ELSE 4
        IN /\ ret.out.exc = "none"
           /\ ret.out.val = <<DecisionMatrix[row][col]>>
           /\ (s = 4 /\ Likelihood = [num |-> 3, den |-> 1]) => ret.out.val = <<"Critical">>
           /\ (s = 1 /\ Likelihood = [num |-> 1, den |-> 1]) => ret.out.val = <<"Low">>

\* C1 witness: a severity above 4 and a fractional likelihood were looked up
C1_Witness ==
    /\ ret.op = "risk_level"
    /\ ret.arg > 4
    /\ Likelihood.den # 1
    /\ ret.out = Return(<<"High">>)

\* the positions that delimit the comma-separated pieces of s
PieceBounds(s) == {0, Len(s) + 1} \cup {i \in 1..Len(s) : s[i] = ","}

\* the pieces of s, each as the pair of the bounds around it
PiecesOf(s) ==
    {p \in PieceBounds(s) \X PieceBounds(s) :
        p[1] < p[2] /\ \A b \in PieceBounds(s) : ~(p[1] < b /\ b < p[2])}

\* the positions m of piece p that hold its level: after the first colon of
\* the piece, a level word with nothing but blanks around it
LevelPositions(s, p) ==
    {m \in (p[1] + 1)..(p[2] - 1) :
        /\ s[m] \in Labels
        /\ \E k \in (p[1] + 1)..(m - 1) :
              /\ s[k] = ":"
              /\ \A j \in (p[1] + 1)..(k - 1) : s[j] # ":"
              /\ \A j \in (k + 1)..(p[2] - 1) : j # m => s[j] = " "}

Parseable(s) == {p \in PiecesOf(s) : LevelPositions(s, p) # {}}

RECURSIVE TotalValue(_, _)
TotalValue(s, ps) ==
    IF ps = {} THEN 0
    ELSE LET p == CHOOSE q \in ps : TRUE
             m == CHOOSE n \in LevelPositions(s, p) : TRUE
         IN LevelValue(s[m]) + TotalValue(s, ps \ {p})

\* C2: likelihood_score() is the arithmetic mean of the values of the
\* parseable steps (comma-separated pieces split at their first colon, level
\* part trimmed, matched case-sensitively); pieces that do not parse count
\* neither in the sum nor in the divisor; with no parseable piece it is 1.0.
C2_LikelihoodIsMeanOfParseable ==
    ret.op = "likelihood_score" =>
        LET s == threat[1].operational_steps
            n == Cardinality(Parseable(s))
        IN /\ ret.out.exc = "none"
           /\ n > 0 => ret.out.val.num * n = TotalValue(s, Parseable(s)) * ret.out.val.den
           /\ n = 0 => ret.out.val = [num |-> 1, den |-> 1]

\* C2 witness: a mean over two parseable steps next to a step that is skipped
C2_Witness ==
    /\ ret.op = "likelihood_score"
    /\ Cardinality(Parseable(threat[1].operational_steps)) = 2
    /\ Cardinality(PiecesOf(threat[1].operational_steps)) = 3
    /\ ret.out = Return([num |-> 5, den |-> 2])

\* C3: severity_score() is 1 for Low, 2 for Medium, 3 for High and 4 for
\* Critical; constructing an Asset with any other criticality string (another
\* letter case included) fails with a validation error, so no Asset has a
\* severity_score outside 1..4.
C3_SeverityMapping ==
    /\ ret.op = "Asset" =>
          /\ ret.out.exc = "none" <=> (Len(ret.arg) = 1 /\ ret.arg[1] \in Labels)
          /\ ret.out.exc # "none" => (ret.out.exc = "ValidationError" /\ asset = <<>>)
    /\ asset # <<>> => severity_score(asset[1]) \in 1..4
    /\ ret.op = "severity_score" =>
          ret.out = Return(LevelValue(asset[1].criticality[1]))

\* C3 witness: the score of a Critical asset was taken
C3_Witness ==
    /\ ret.op = "severity_score"
    /\ asset[1].criticality = <<"Critical">>
    /\ ret.out = Return(4)

\* C4: constructing a Threat fails with a validation error exactly when
\* operational_steps is empty or has no colon; a string with a colon is
\* accepted even when none of its steps has a recognised level, and neither
\* likelihood_score() nor risk_level() (for a severity >= 1) raises later.
C4_StepsFormatCheck ==
    /\ ret.op = "Threat" =>
          /\ ret.out.exc \in {"none", "ValidationError"}
          /\ ret.out.exc = "ValidationError" <=>
                (Len(ret.arg) = 0 \/ \A i \in 1..Len(ret.arg) : ret.arg[i] # ":")
          /\ ret.out.exc = "none" <=> threat # <<>>
    /\ ret.op = "likelihood_score" => ret.out.exc = "none"
    /\ (ret.op = "risk_level" /\ ret.arg >= 1) => ret.out.exc = "none"

\* C4 witness: a threat none of whose steps parses was accepted and scored
C4_Witness ==
    /\ ret.op = "risk_level"
    /\ ret.arg >= 1
    /\ Parseable(threat[1].operational_steps) = {}
    /\ ret.out.exc = "none"

-----------------------------------------------------------------------------
(* Properties of the risk engine (SpecEngine)                              *)

Called == returned.op = "calculate_risk_levels"

Results == returned.out.val

C6_GlobalMaxSeverity ==
    (Called /\ returned.out.exc = "none") =>
        \A i \in 1..Len(Results) :
            /\ \E k \in 1..Len(assets) :
                  Results[i].max_severity = LevelValue(assets[k].criticality[1])
            /\ \A k \in 1..Len(assets) :
                  Results[i].max_severity >= LevelValue(assets[k].criticality[1])
            /\ \A j \in 1..Len(Results) :
                  Results[j].max_severity = Results[i].max_severity
            /\ Results[i].severity_score = Results[i].max_severity
            /\ Len(Results[i].affected_assets) = Len(assets)
            /\ \A k \in 1..Len(assets) : Results[i].affected_assets[k] = assets[k].id

\* C6 witness: two assets, the more critical one first, and a threat that
\* names a targeted objective
C6_Witness ==
    /\ Called
    /\ Len(assets) = 2
    /\ assets[1].criticality = <<"High">>
    /\ assets[2].criticality = <<"Low">>
    /\ assets[1].id # assets[2].id
    /\ Len(threats) = 2
    /\ threats[1].targeted_objectives # <<>>
    /\ threats[2].targeted_objectives = <<>>
    /\ threats[1].operational_steps = threats[2].operational_steps
    /\ Results[1].max_severity = 3
    /\ Results[2].max_severity = 3

\* C7 as stated: every element of risk_results has exactly the fields
\* threat_id, ov_id, strategic_path, operational_steps, likelihood_score,
\* max_severity, severity_score, risk_level, affected_assets.
C7_FieldSetWithOvId ==
    (Called /\ returned.out.exc = "none") =>
        \A i \in 1..Len(Results) :
            DOMAIN Results[i] =
                {"threat_id", "ov_id", "strategic_path", "operational_steps",
                 "likelihood_score", "max_severity", "severity_score",
                 "risk_level", "affected_assets"}

\* C7 amended: every element of risk_results has exactly the fields
\* threat_id, threat_ov, strategic_path, operational_steps,
\* likelihood_score, max_severity, severity_score, risk_level,
\* affected_assets, with threat_ov holding the threat's ov_id.
C7_FieldSetWithThreatOv ==
    (Called /\ returned.out.exc = "none") =>
        \A i \in 1..Len(Results) :
            /\ DOMAIN Results[i] =
                  {"threat_id", "threat_ov", "strategic_path", "operational_steps",
                   "likelihood_score", "max_severity", "severity_score",
                   "risk_level", "affected_assets"}
            /\ Results[i].threat_ov = threats[i].ov_id

\* C7 witness: a result was produced for a threat
C7_Witness ==
    /\ Called
    /\ returned.out.exc = "none"
    /\ Len(Results) >= 1
    /\ Results[1].threat_ov = <<"OV2">>
    /\ Results[1].threat_id = <<"SR2">>

\* C8: for every constructed threat and every non-empty list of validated
\* assets, 1 <= max_severity <= 4 and 1 <= likelihood_score <= 4, so both
\* matrix indices lie in 0..3 and the risk_level is one of the four labels.
C8_MatrixIndicesInRange ==
    (Called /\ assets # <<>>) =>
        /\ returned.out.exc = "none"
        /\ \A i \in 1..Len(Results) :
              LET sev == Results[i].max_severity
                  lik == Results[i].likelihood_score
              IN /\ 1 <= sev /\ sev <= 4
                 /\ lik.den > 0
                 /\ lik.den <= lik.num /\ lik.num <= 4 * lik.den
                 /\ sev_idx(sev) \in 0..3
                 /\ lik_idx(lik) \in 0..3
                 /\ Len(Results[i].risk_level) = 1
                 /\ Results[i].risk_level[1] \in Labels

\* C8 witness: the lowest values reach the lookup: a threat without any
\* parseable step against assets that are all of Low criticality
C8_Witness ==
    /\ Called
    /\ Len(assets) >= 1
    /\ \A k \in 1..Len(assets) : assets[k].criticality = <<"Low">>
    /\ Len(threats) >= 1
    /\ Parseable(threats[1].operational_steps) = {}
    /\ Results[1].likelihood_score = [num |-> 1, den |-> 1]
    /\ Results[1].max_severity = 1
    /\ Results[1].risk_level = <<"Low">>

-----------------------------------------------------------------------------
(* Properties of the pipeline (SpecPipeline)                               *)

\* the assets file has the required header and no data line
HeaderOnlyAssets ==
    /\ fs.assets.exists
    /\ Len(fs.assets.lines) = 1
    /\ \A c \in {"id", "type", "label", "criticality"} :
          \E i \in 1..Len(fs.assets.lines[1]) : fs.assets.lines[1][i] = <<c>>

\* the threats file loads and holds at least one threat
SomeThreatLoaded ==
    /\ load_threats(fs.threats).exc = "none"
    /\ Len(load_threats(fs.threats).val) >= 1

\* C9: calculate_risk_levels with an empty asset list and at least one
\* threat fails (maximum of an empty sequence) and returns no result list;
\* through the export command (assets.csv with headers only, one threat
\* present) the failure is surfaced as an error distinct from the
\* missing-file error raised when assets.csv does not exist.
C9_EmptyAssetsFailDistinctly ==
    cli.op = "export" =>
        /\ (HeaderOnlyAssets /\ SomeThreatLoaded) =>
              /\ \A loaded \in {load_threats(fs.threats).val} :
                    calculate_risk_levels(<<>>, loaded).exc = "ValueError"
              /\ cli.exit = 1
              /\ cli.error = Raise("ValueError")
              /\ cli.said = "Configuration error"
              /\ ~report.written
        /\ ~fs.assets.exists =>
              /\ cli.exit = 1
              /\ cli.error.exc = "FileNotFoundError"
              /\ cli.error.msg = [kind |-> "file_not_found", file |-> "assets.csv"]
              /\ cli.said = "Error"
              /\ ~report.written

\* C9 witness: the export command ran on a header-only assets.csv and a
\* threats.csv with one threat
C9_Witness ==
    /\ cli.op = "export"
    /\ HeaderOnlyAssets
    /\ SomeThreatLoaded
    /\ cli.exit = 1
    /\ cli.said = "Configuration error"

-----------------------------------------------------------------------------
(* Properties of the loaders (SpecLoader)                                  *)

\* the loader of the file was the call made
Loaded(name) == call.op = "load" /\ call.name = name

\* the file of the kind has a header line that passes the loader's header
\* checks, so that its data lines are processed
HeaderAccepted(name) ==
    /\ fs[name].exists
    /\ fs[name].lines # <<>>
    /\ name = "assets" =>
          \A c \in {"id", "type", "label", "criticality"} :
              \E i \in 1..Len(fs[name].lines[1]) : fs[name].lines[1][i] = <<c>>

DataLines(name) == Tail(fs[name].lines)

\* the outcome of constructing the record of data line i of the file
Construction(name, i) ==
    LET fieldnames == fs[name].lines[1]
        line == DataLines(name)[i]
    IN CASE name = "assets" -> AssetFromRow(asset_clean_row(fieldnames, line))
         [] name = "threats" -> ThreatFromRow(threat_clean_row(fieldnames, line))
         [] name = "risk_sources" -> RiskSourceFromRow(DictRow(fieldnames, line))
         [] name = "objectives" -> ObjectiveFromRow(asset_clean_row(fieldnames, line))
         [] name = "stakeholders" -> StakeholderFromRow(asset_clean_row(fieldnames, line))
         [] name = "measures" -> MeasureFromRow(asset_clean_row(fieldnames, line))

FailingLines(name) ==
    {i \in 1..Len(DataLines(name)) : Construction(name, i).exc # "none"}

CsvName(name) ==
    CASE name = "assets" -> "assets.csv"
      [] name = "threats" -> "threats.csv"
      [] name = "risk_sources" -> "risk_sources.csv"
      [] name = "objectives" -> "objectives.csv"
      [] name = "stakeholders" -> "stakeholders.csv"
      [] name = "measures" -> "measures.csv"

CsvLoaders == {"assets", "threats", "risk_sources", "objectives", "stakeholders", "measures"}

\* C11: load_assets and load_threats are all-or-nothing: either every data
\* line constructs and the call returns exactly one record per line in file
\* order, or the call fails with an error naming the file and the 1-based
\* number of the first line whose construction fails; no failing line is
\* skipped and no shorter list is returned.
C11_AllOrNothing ==
    \A name \in {"assets", "threats"} :
        (Loaded(name) /\ HeaderAccepted(name)) =>
            IF FailingLines(name) = {}
            THEN /\ call.out.exc = "none"
                 /\ Len(call.out.val) = Len(DataLines(name))
                 /\ \A i \in 1..Len(DataLines(name)) :
                       call.out.val[i] = Construction(name, i).val
            ELSE /\ call.out.exc = "ValueError"
                 /\ call.out.msg.kind = "row_error"
                 /\ call.out.msg.file = CsvName(name)
                 /\ call.out.msg.row \in FailingLines(name)
                 /\ \A i \in FailingLines(name) : call.out.msg.row <= i

\* C11 witness: load_assets met a failing line after a line that constructs
C11_Witness ==
    /\ Loaded("assets")
    /\ HeaderAccepted("assets")
    /\ Len(DataLines("assets")) = 2
    /\ FailingLines("assets") = {2}
    /\ call.out.exc = "ValueError"
    /\ call.out.msg.row = 2

\* C12: in every CSV loader (assets, threats, risk_sources, objectives,
\* stakeholders, measures) an exception raised while constructing the record
\* of one data line is wrapped into an error that identifies the file and
\* the 1-based line number, and the load is aborted with no partial result.
C12_EveryLoaderWrapsRowErrors ==
    \A name \in CsvLoaders :
        (Loaded(name) /\ HeaderAccepted(name) /\ FailingLines(name) # {}) =>
            /\ call.out.exc = "ValueError"
            /\ "msg" \in DOMAIN call.out
            /\ call.out.msg.kind = "row_error"
            /\ call.out.msg.file = CsvName(name)
            /\ call.out.msg.row \in FailingLines(name)
            /\ \A i \in FailingLines(name) : call.out.msg.row <= i

\* the required threat fields that no column of the header is named after
MissingThreatColumns ==
    SelectSeq(<<<<"sr_id">>, <<"ov_id">>, <<"strategic_path">>, <<"operational_steps">>>>,
              LAMBDA f : \A i \in 1..Len(fs.threats.lines[1]) : fs.threats.lines[1][i] # f)

\* load_threats was called on a file with a header and at least one data line
ThreatLinesLoaded ==
    /\ Loaded("threats")
    /\ HeaderAccepted("threats")
    /\ DataLines("threats") # <<>>

\* the call failed on the given line with 'Missing required fields'
MissingRequiredFieldsAt(row) ==
    /\ call.out.exc = "ValueError"
    /\ call.out.msg.kind = "row_error"
    /\ call.out.msg.file = "threats.csv"
    /\ call.out.msg.row = row
    /\ call.out.msg.cause.exc = "ValueError"
    /\ "msg" \in DOMAIN call.out.msg.cause
    /\ call.out.msg.cause.msg.kind = "missing_required_fields"

\* data line i is too short to have a value for some required column
TooShort(i) ==
    \E n \in 1..Len(fs.threats.lines[1]) :
        /\ fs.threats.lines[1][n] \in
              {<<"sr_id">>, <<"ov_id">>, <<"strategic_path">>, <<"operational_steps">>}
        /\ n > Len(DataLines("threats")[i])

\* data line i ends before the operational_steps column
StepsCellMissing(i) ==
    \E n \in 1..Len(fs.threats.lines[1]) :
        /\ fs.threats.lines[1][n] = <<"operational_steps">>
        /\ n > Len(DataLines("threats")[i])

\* C13 as stated: load_threats on a CSV in which operational_steps (or any
\* of sr_id, ov_id, strategic_path) is missing for a row, the column being
\* absent or the row too short to have a value for it, fails with an error
\* containing 'Missing required fields' that names the missing fields and
\* the 1-based row number.
C13_MissingColumnOrShortRow ==
    ThreatLinesLoaded =>
        LET lacking == {i \in 1..Len(DataLines("threats")) :
                            MissingThreatColumns # <<>> \/ TooShort(i)}
        IN lacking # {} =>
              \E i \in lacking : /\ \A j \in FailingLines("threats") : i <= j
                                 /\ MissingRequiredFieldsAt(i)

\* C13 amended: when a required column is absent from the header, the load
\* fails at data line 1 with 'Missing required fields' listing exactly the
\* absent required columns; when every required column is in the header no
\* line raises 'Missing required fields', however short: a missing cell is
\* read as the empty string, so that a line without an operational_steps
\* cell fails in the construction of the Threat (format check) instead.
C13_MissingColumnOnly ==
    ThreatLinesLoaded =>
        IF MissingThreatColumns # <<>>
        THEN /\ MissingRequiredFieldsAt(1)
             /\ call.out.msg.cause.msg.fields = MissingThreatColumns
        ELSE /\ \A i \in 1..Len(DataLines("threats")) : ~MissingRequiredFieldsAt(i)
             /\ \A i \in 1..Len(DataLines("threats")) :
                   (/\ StepsCellMissing(i)
                    /\ \A j \in 1..(i - 1) : j \notin FailingLines("threats")) =>
                       /\ call.out.exc = "ValueError"
                       /\ call.out.msg.row = i
                       /\ call.out.msg.cause = Raise("ValidationError")

\* C13 witness: load_threats ran on a file without the operational_steps
\* column and reported exactly that field for line 1
C13_Witness ==
    /\ ThreatLinesLoaded
    /\ MissingThreatColumns = <<<<"operational_steps">>>>
    /\ MissingRequiredFieldsAt(1)
    /\ call.out.msg.cause.msg.fields = <<<<"operational_steps">>>>

\* the required asset columns that no column of the header is named after
MissingAssetColumns ==
    {c \in {<<"id">>, <<"type">>, <<"label">>, <<"criticality">>} :
        \A i \in 1..Len(fs.assets.lines[1]) : fs.assets.lines[1][i] # c}

\* C14: load_assets on a file whose header does not cover {id, type, label,
\* criticality} fails with a 'Missing columns' error listing exactly the
\* missing required columns, before any data line is processed (so whatever
\* the data lines are, and also when there is none), and returns no assets.
C14_MissingColumns ==
    (/\ Loaded("assets")
     /\ fs.assets.exists
     /\ fs.assets.lines # <<>>
     /\ MissingAssetColumns # {}) =>
        /\ call.out.exc = "ValueError"
        /\ "val" \notin DOMAIN call.out
        /\ call.out.msg = [kind |-> "missing_columns", columns |-> MissingAssetColumns]

\* C14 witness: load_assets rejected a file without the type column and
\* without any data line
C14_Witness ==
    /\ Loaded("assets")
    /\ fs.assets.exists
    /\ Len(fs.assets.lines) = 1
    /\ MissingAssetColumns = {<<"type">>}
    /\ call.out.exc = "ValueError"
    /\ call.out.msg.kind = "missing_columns"

\* the file with every column name of its header trimmed
Unpadded(file) ==
    [file EXCEPT !.lines[1] = [i \in 1..Len(@) |-> strip(@[i])]]

\* the clean mapping the loader of the file makes of a data line
CleanRow(name, fieldnames, line) ==
    IF name = "assets" THEN asset_clean_row(fieldnames, line)
    ELSE threat_clean_row(fieldnames, line)

\* C15: row normalisation drops the None and blank keys and keeps every
\* other column under its trimmed name with its trimmed value: an asset or
\* threat file whose column names are whitespace-padded normalises every
\* data line to the same clean mapping as the unpadded file and loads the
\* same records.
C15_PaddedHeadersLoadTheSame ==
    \A name \in {"assets", "threats"} :
        (Loaded(name) /\ fs[name].exists /\ fs[name].lines # <<>>) =>
            /\ \A i \in 1..Len(DataLines(name)) :
                  CleanRow(name, fs[name].lines[1], DataLines(name)[i])
                    = CleanRow(name, Unpadded(fs[name]).lines[1], DataLines(name)[i])
            /\ call.out = load_file(name, [fs EXCEPT ![name] = Unpadded(fs[name])])

\* the list fields of the records of each file
ListFields(name) ==
    CASE name = "threats" -> {<<"risk_sources">>, <<"targeted_objectives">>}
      [] name = "objectives" -> {<<"target_assets">>}
      [] name = "stakeholders" -> {<<"responsibilities">>}
      [] name = "measures" -> {<<"target_threats">>}

\* the sequence a trimmed list value stands for
ListOf(value) == IF value = <<>> THEN <<>> ELSE split_list(value)

\* the clean mapping of data line i of the file
CleanLine(name, i) ==
    IF name = "threats"
    THEN threat_clean_row(fs[name].lines[1], DataLines(name)[i])
    ELSE asset_clean_row(fs[name].lines[1], DataLines(name)[i])

\* C16: for the list fields risk_sources, targeted_objectives,
\* responsibilities, target_assets and target_threats, normalisation splits
\* the trimmed value on commas and trims each element, in order; an empty
\* value yields the empty sequence (not a one-element sequence and not an
\* error), so a line whose list column is present but empty gives its
\* record an empty list in that field.
C16_ListFieldsSplit ==
    \A name \in {"threats", "objectives", "stakeholders", "measures"} :
        (Loaded(name) /\ HeaderAccepted(name)) =>
            \A i \in 1..Len(DataLines(name)) :
                \A f \in ListFields(name) \cap DOMAIN CleanLine(name, i) :
                    /\ list_field(CleanLine(name, i), f)
                         = Return(ListOf(CleanLine(name, i)[f]))
                    /\ call.out.exc = "none" =>
                          call.out.val[i][f[1]] = ListOf(CleanLine(name, i)[f])

\* the fixed order of the files
FixedOrder == <<"assets", "threats", "settings", "risk_sources", "objectives", "stakeholders", "measures">>

\* the positions in the fixed order of the files whose loader fails
FailingFiles == {i \in 1..7 : load_file(FixedOrder[i], fs).exc # "none"}

\* C17: load_all fails with a missing-file error naming the file when
\* assets.csv or threats.csv does not exist and returns no partial tuple;
\* the files are loaded in the fixed order assets, threats, settings,
\* risk_sources, objectives, stakeholders, measures, so the error reported
\* is that of the first failing file in this order and no later file is
\* read after a failure.
C17_LoadAllOrder ==
    call.op = "load_all" =>
        /\ ~fs.assets.exists =>
              call.out = RaiseMsg("FileNotFoundError",
                                  [kind |-> "file_not_found", file |-> "assets.csv"])
        /\ (1 \notin FailingFiles /\ ~fs.threats.exists) =>
              call.out = RaiseMsg("FileNotFoundError",
                                  [kind |-> "file_not_found", file |-> "threats.csv"])
        /\ IF FailingFiles = {}
           THEN /\ call.out.exc = "none"
                /\ call.out.val = [i \in 1..7 |-> load_file(FixedOrder[i], fs).val]
                /\ call.read = FixedOrder
           ELSE \E first \in FailingFiles :
                    /\ \A i \in FailingFiles : first <= i
                    /\ call.out = load_file(FixedOrder[first], fs)
                    /\ "val" \notin DOMAIN call.out
                    /\ call.read = SubSeq(FixedOrder, 1, first)

\* C17 witness: load_all ran on a directory whose assets.csv loads, that
\* has no threats.csv, and whose later files exist and would fail
C17_Witness ==
    /\ call.op = "load_all"
    /\ 1 \notin FailingFiles
    /\ ~fs.threats.exists
    /\ {3, 4, 5} \subseteq FailingFiles
    /\ call.out.exc = "FileNotFoundError"
    /\ call.read = <<"assets", "threats">>

RunReachesExport ==
    /\ FailingFiles = {}
    /\ \/ load_file("assets", fs).val # <<>>
       \/ load_file("threats", fs).val = <<>>

\* the spellings, among the formats tried, of a name that lower-cased is one
\* of xlsx, excel, json, md, markdown
SupportedSpellings ==
    {<<"xlsx">>, <<"XLSX">>, <<"excel">>, <<"Excel">>, <<"json">>, <<"JSON">>,
     <<"md">>, <<"MD">>, <<"markdown">>, <<"Markdown">>}

\* C19: run with a format whose lower-cased name is not one of xlsx, excel,
\* json, md, markdown fails with a ValueError whose message contains the
\* format string as given, and no exporter is invoked (no report file is
\* written); a format of the set is accepted in any letter case.
C19_UnsupportedFormat ==
    (call.op = "run" /\ RunReachesExport) =>
        IF call.fmt \in SupportedSpellings
        THEN call.out.exc = "none" /\ report.written
        ELSE /\ call.out = RaiseMsg("ValueError",
                                    [kind |-> "unsupported_format", fmt |-> call.fmt])
             /\ ~report.written

\* C19 witness: run reached its export step with the format PDF and failed
C19_Witness ==
    /\ call.op = "run"
    /\ RunReachesExport
    /\ call.fmt = <<"PDF">>
    /\ call.out.exc = "ValueError"
    /\ call.out.msg.fmt = <<"PDF">>
    /\ ~report.written

\* the record lists of the export document, each with its file
RecordLists == {"assets", "threats", "risk_sources", "objectives", "stakeholders", "measures"}

\* the position of a file in the tuple load_all returns
TuplePosition(name) == CHOOSE i \in 1..7 : FixedOrder[i] = name

\* the identifier cell (first column) of data line i of the file, trimmed
IdCell(name, i) == strip(fs[name].lines[i + 1][1])

\* the identifier of a dumped record
DumpId(name, dump) == IF name = "threats" THEN dump.sr_id ELSE dump.id

\* C20: run builds an export document with exactly the keys assets,
\* threats, risk_sources, objectives, stakeholders, measures, risk_results,
\* settings, in which each record list holds one dump per loaded record in
\* the order the records were loaded (nothing re-sorted, dropped or
\* de-duplicated) and risk_results is the unmodified output of
\* calculate_risk_levels.
C20_ExportDocument ==
    (call.op = "run" /\ call.out.exc = "none") =>
        \A loaded \in {load_all(fs).val} : \A data \in {report.file.data} :
            /\ DOMAIN data = RecordLists \cup {"risk_results", "settings"}
            /\ \A name \in RecordLists :
                  /\ Len(data[name]) = Len(loaded[TuplePosition(name)])
                  /\ fs[name].exists => Len(data[name]) = Len(fs[name].lines) - 1
                  /\ \A i \in 1..Len(data[name]) :
                        /\ data[name][i] = loaded[TuplePosition(name)][i]
                        /\ DumpId(name, data[name][i]) = IdCell(name, i)
            /\ data.risk_results = calculate_risk_levels(loaded[1], loaded[2]).val
            /\ data.settings = loaded[3]

\* C20 witness: run wrote a document for a directory with two records in
\* every list, out of identifier order in assets and twice the same
\* objective
C20_Witness ==
    /\ call.op = "run"
    /\ call.out.exc = "none"
    /\ report.written
    /\ \A name \in RecordLists : Len(report.file.data[name]) = 2
    /\ report.file.data.assets[1].id = <<"A2">>
    /\ report.file.data.assets[2].id = <<"A1">>
    /\ report.file.data.objectives[1] = report.file.data.objectives[2]
    /\ Len(report.file.data.risk_results) = 2

-----------------------------------------------------------------------------
(* Further properties of the record types (SpecModels)                     *)

\* the column of the decision matrix for the likelihood of the threat under
\* test: its integer part, at most 4
LikelihoodColumn ==
    LET whole == CHOOSE n \in 0..4 : /\ n * Likelihood.den <= Likelihood.num
                                     /\ Likelihood.num < (n + 1) * Likelihood.den
    IN IF whole < 4 THEN whole ELSE 4

\* C26: risk_level has no lower clamp: with max_asset_severity = 0 the row
\* index is -1, which wraps to the last (Critical-severity) row of the
\* matrix, so risk_level(0) returns the label risk_level(4) returns for the
\* same threat, instead of failing or returning the Low-severity row.
C26_SeverityZeroWraps ==
    (ret.op = "risk_level" /\ ret.arg = 0) =>
        /\ sev_idx(0) = 0 - 1
        /\ ret.out.exc = "none"
        /\ ret.out.val = <<DecisionMatrix[4][LikelihoodColumn]>>
        /\ ret.out = risk_level(threat[1], 4)

\* C26 witness: risk_level(0) was called on a threat whose likelihood is at
\* least 3 and returned Critical, where the Low-severity row has Medium
C26_Witness ==
    /\ ret.op = "risk_level"
    /\ ret.arg = 0
    /\ LikelihoodColumn = 3
    /\ DecisionMatrix[1][LikelihoodColumn] = "Medium"
    /\ ret.out = Return(<<"Critical">>)

\* the steps of the threats a threat is compared with: likelihoods 1, 1.5,
\* 2, 2.5, 3, 3.5, 4 and the default 1.0 of a threat without parseable step
ComparedSteps ==
    {<<"A", ":", w>> : w \in Labels}
    \cup {<<"A", ":", "Low", ",", "A", ":", "Medium">>,
          <<"A", ":", "Medium", ",", "A", ":", "High">>,
          <<"A", ":", "High", ",", "A", ":", "Critical">>,
          <<"A", ":", "Unknown">>}

\* a <= b for two likelihoods
LikelihoodLeq(a, b) == a.num * b.den <= b.num * a.den

\* C28: the risk matrix is monotone: for a fixed threat risk_level(s) never
\* decreases in the order Low < Medium < High < Critical when s increases
\* from 1 to 4, and for a fixed severity the risk level never decreases when
\* the likelihood_score of the threat increases.
C28_MatrixMonotone ==
    (ret.op = "risk_level" /\ ret.arg \in 1..4) =>
        /\ \A s \in ret.arg..4 :
              LevelValue(ret.out.val[1]) <= LevelValue(risk_level(threat[1], s).val[1])
        /\ \A steps \in ComparedSteps :
              \A other \in {Threat(<<"SR2">>, <<"OV2">>, <<"Fraud">>, steps, <<>>, <<>>).val} :
                  LikelihoodLeq(Likelihood, likelihood_score(other).val) =>
                      LevelValue(ret.out.val[1])
                        <= LevelValue(risk_level(other, ret.arg).val[1])

\* C28 witness: a threat of likelihood 2.5 was rated at severity 3 (High by
\* the matrix), below severity 4 and below a threat of likelihood 3
C28_Witness ==
    /\ ret.op = "risk_level"
    /\ ret.arg = 3
    /\ Likelihood = [num |-> 5, den |-> 2]
    /\ ret.out = Return(<<"Medium">>)
    /\ risk_level(threat[1], 4) = Return(<<"High">>)

-----------------------------------------------------------------------------
(* Further properties of the risk engine (SpecEngine)                      *)

\* C29: calculate_risk_levels with an empty threat list returns an empty
\* result list for any asset list, the empty one included: the failure on
\* empty assets occurs only when at least one threat is present, the
\* maximum being computed inside the loop over the threats.
C29_NoThreatsNoResults ==
    returned.op = "calculate_risk_levels" =>
        /\ threats = <<>> => returned.out = Return(<<>>)
        /\ (assets = <<>> /\ threats # <<>>) => returned.out.exc = "ValueError"

\* C29 witness: the calculation was called with no asset and no threat and
\* returned the empty list
C29_Witness ==
    /\ returned.op = "calculate_risk_levels"
    /\ assets = <<>>
    /\ threats = <<>>
    /\ returned.out = Return(<<>>)

-----------------------------------------------------------------------------
(* Further properties of the loaders (SpecLoader)                          *)

\* C30: load_threats makes its required-field check per data line and never
\* on the header alone: a threats.csv whose header lacks a required column
\* and that has no data line loads as the empty list, whereas load_assets
\* rejects the analogous assets.csv before reading any line.
C30_ThreatCheckIsPerRow ==
    /\ (Loaded("threats") /\ fs.threats.exists /\ Len(fs.threats.lines) = 1) =>
          call.out = Return(<<>>)
    /\ (/\ Loaded("assets")
        /\ fs.assets.exists
        /\ Len(fs.assets.lines) = 1
        /\ MissingAssetColumns # {}) =>
          /\ call.out.exc = "ValueError"
          /\ call.out.msg.kind = "missing_columns"

\* C30 witness: load_threats returned the empty list for a file with a
\* header without operational_steps and no data line
C30_Witness ==
    /\ Loaded("threats")
    /\ fs.threats.exists
    /\ Len(fs.threats.lines) = 1
    /\ MissingThreatColumns = <<<<"operational_steps">>>>
    /\ call.out = Return(<<>>)

\* the output_dir values settings.yaml supplies (none when it has no such
\* key)
SuppliedOutputDirs ==
    {fs.settings.lines[i][2] :
        i \in {n \in 1..Len(fs.settings.lines) : fs.settings.lines[n][1] = <<"output_dir">>}}

EndsWithSlash(v) == v # <<>> /\ v[Len(v)] = "/"

\* C24: the output_dir of every Settings value ends with '/': a supplied
\* value already ending in '/' is kept unchanged, otherwise exactly one '/'
\* is appended (so normalising twice equals normalising once), and when
\* settings.yaml is absent load_settings returns the built-in defaults,
\* whose output_dir is 'build/'.
C24_OutputDirEndsWithSlash ==
    (Loaded("settings") /\ call.out.exc = "none") =>
        /\ EndsWithSlash(call.out.val.output_dir)
        /\ \A v \in SuppliedOutputDirs :
              /\ EndsWithSlash(v) => call.out.val.output_dir = v
              /\ ~EndsWithSlash(v) => call.out.val.output_dir = v \o <<"/">>
              /\ ensure_trailing_slash(call.out.val.output_dir) = call.out.val.output_dir
        /\ ~fs.settings.exists =>
              /\ call.out.val.output_dir = <<"build", "/">>
              /\ call.out.val.excel_template = <<"templates/ebiosrm_empty", ".", "xlsx">>
              /\ call.out.val.severity_scale
                    = <<<<"Low">>, <<"Medium">>, <<"High">>, <<"Critical">>>>

\* C24 witness: load_settings read a settings.yaml whose output_dir is
\* 'out' and returned 'out/'
C24_Witness ==
    /\ Loaded("settings")
    /\ SuppliedOutputDirs = {<<"out">>}
    /\ call.out.exc = "none"
    /\ call.out.val.output_dir = <<"out", "/">>

\* run called with no file name of the caller's own
DefaultFilenameRun ==
    /\ call.op = "run"
    /\ call.out.exc = "none"
    /\ call.output_filename \in {<<>>, <<"ebios_risk_assessment", ".", "xlsx">>}

\* the extension and the exporter the formats stand for
FormatTable ==
    {[fmts |-> {<<"xlsx">>, <<"excel">>}, ext |-> <<"xlsx">>, exporter |-> "export_excel"],
     [fmts |-> {<<"json">>}, ext |-> <<"json">>, exporter |-> "export_json"],
     [fmts |-> {<<"md">>, <<"markdown">>}, ext |-> <<"md">>, exporter |-> "export_markdown"]}

\* C23: a run without a custom output file name writes
\* <out_dir>/ebios_risk_assessment.<ext>, with ext xlsx for xlsx/excel, json
\* for json and md for md/markdown, and invokes the matching exporter, and
\* only that one, once.
C23_DefaultFilename ==
    DefaultFilenameRun =>
        \E row \in FormatTable :
            /\ lower(call.fmt) \in row.fmts
            /\ report.written
            /\ report.file.dir = call.out_dir
            /\ report.file.name = <<"ebios_risk_assessment", ".">> \o row.ext
            /\ report.file.invoked = <<row.exporter>>

C23_Witness ==
    /\ DefaultFilenameRun
    /\ call.output_filename = <<>>
    /\ call.fmt = <<"Markdown">>
    /\ call.out_dir = <<"out">>
    /\ report.file.name = <<"ebios_risk_assessment", ".", "md">>

\* the list a document holds under a key, empty when the key is absent
ListAt(data, key) == IF key \in DOMAIN data THEN data[key] ELSE <<>>

\* C21: the risks array export_json writes equals the risk_results of the
\* input document element for element and in order, the three totals of the
\* metadata are the lengths of the input risk_results, assets and threats,
\* and the input document is the same after the call.
C21_ExportJsonKeepsRisks ==
    call.op = "export_json" =>
        LET written == call.out.val.written
        IN /\ Len(written.risks) = Len(ListAt(call.data, "risk_results"))
           /\ \A i \in 1..Len(written.risks) :
                 written.risks[i] = call.data.risk_results[i]
           /\ written.metadata.total_risks = Len(ListAt(call.data, "risk_results"))
           /\ written.metadata.total_assets = Len(ListAt(call.data, "assets"))
           /\ written.metadata.total_threats = Len(ListAt(call.data, "threats"))
           /\ call.out.val.data = call.data

C21_Witness ==
    /\ call.op = "export_json"
    /\ "measures" \in DOMAIN call.data
    /\ Len(call.data.assets) = 2
    /\ Len(call.data.risk_results) = 2
    /\ call.data.risk_results[1] # call.data.risk_results[2]
    /\ call.out.val.written.metadata.total_risks = 2
    /\ call.out.val.written.risks = call.data.risk_results

-----------------------------------------------------------------------------
(* Further properties of the commands (SpecPipeline)                       *)

ValidateCommands == {"validate", "src_cli_validate"}

ExportCommands == {"export", "src_cli_export"}

\* the command ended with status zero exactly when its work succeeded, and
\* reported the error otherwise
ExitsZeroIffSucceeded ==
    /\ cli.op \in ValidateCommands => (cli.exit = 0 <=> load_all(fs).exc = "none")
    /\ cli.op \in ExportCommands => (cli.exit = 0 <=> report.written)
    /\ cli.exit # 0 => cli.error.exc # "none"

\* C22: the validate and export commands of src/cli.py and of
\* ebiosrm_core/cli.py end with status 0 exactly when loading (and, for
\* export, computation and rendering) succeeds, and otherwise print the
\* error and end with a non-zero status; validate on a directory load_all
\* accepts reports success.
C22_CommandsExitZeroIffSuccess ==
    cli.op \in ValidateCommands \cup ExportCommands => ExitsZeroIffSucceeded

\* the same of the three commands other than the validate of src/cli.py
C22_ExceptSrcCliValidate ==
    cli.op \in {"validate"} \cup ExportCommands => ExitsZeroIffSucceeded

\* the validate of src/cli.py ends with status 1 on every directory
C22_SrcCliValidateAlwaysFails ==
    cli.op = "src_cli_validate" =>
        /\ cli.exit = 1
        /\ load_all(fs).exc = "none" =>
              /\ cli.said = "Validation error"
              /\ cli.error = RaiseMsg("ValueError", [kind |-> "unpack", expected |-> 3, got |-> 7])

\* two data lines of the file have the same id (the first cell)
RepeatsAnId(file) ==
    \E i, j \in 2..Len(file.lines) :
        i < j /\ strip(file.lines[i][1]) = strip(file.lines[j][1])

\* the records are the data lines of the file in file order, one each
OneRecordPerLine(records, file, field) ==
    /\ Len(records) = Len(file.lines) - 1
    /\ \A i \in 1..Len(records) : records[i][field] = strip(file.lines[i + 1][1])

\* C25: the loaders do not enforce unique ids: load_assets and load_threats
\* on a file that repeats an id return every row in file order, and the
\* validate command of ebiosrm_core/cli.py warns of the duplicate ids and
\* still ends with status 0.
C25_DuplicateIdsKept ==
    /\ RepeatsAnId(fs.assets) /\ load_assets(fs.assets).exc = "none" =>
            OneRecordPerLine(load_assets(fs.assets).val, fs.assets, "id")
    /\ RepeatsAnId(fs.threats) /\ load_threats(fs.threats).exc = "none" =>
            OneRecordPerLine(load_threats(fs.threats).val, fs.threats, "sr_id")
    /\ cli.op = "validate" /\ load_all(fs).exc = "none" =>
            /\ cli.exit = 0
            /\ RepeatsAnId(fs.assets) =>
                  \E w \in 1..Len(cli.warnings) :
                      cli.warnings[w] = "Duplicate asset IDs detected"
            /\ RepeatsAnId(fs.threats) =>
                  \E w \in 1..Len(cli.warnings) :
                      cli.warnings[w] = "Duplicate threat IDs detected"

C25_Witness ==
    /\ cli.op = "validate"
    /\ cli.exit = 0
    /\ RepeatsAnId(fs.assets)
    /\ RepeatsAnId(fs.threats)
    /\ Len(load_all(fs).val[1]) = 2
    /\ cli.warnings = <<"Duplicate asset IDs detected", "Duplicate threat IDs detected">>

-----------------------------------------------------------------------------
(* Properties of load_referentials (SpecReferentials)                      *)

\* the rows load_referentials read from the files of the directory
LoadedRows ==
    LET rows == concat(fs.referentials.files)
    IN {[index |-> i, row |-> rows[i]] : i \in 1..Len(rows)}

\* version a is a higher version number than version b
HigherVersion(a, b) ==
    LET number(v) == IF v.type = "float" THEN v.value ELSE float_of(v.value)
    IN number(b).num * number(a).den < number(a).num * number(b).den

\* the call returned at most one row per id, a row no loaded row of the
\* same id has a higher version number than
HighestVersionsKept ==
    /\ call.out.exc = "none"
    /\ \A r, q \in call.out.val : r.row.id = q.row.id => r = q
    /\ \A r \in call.out.val : \A q \in LoadedRows :
          q.row.id = r.row.id => ~HigherVersion(q.row.version, r.row.version)

\* C27: load_referentials returns at most one row per id, and of the loaded
\* rows that share an id it keeps the one with the highest version number
\* (from the version column, else the _v<version> suffix of the file name,
\* else 1.0), versions compared as numbers: 10.0 is higher than 9.0.
C27_HighestVersionKept ==
    call.op = "load_referentials" => HighestVersionsKept

\* every loaded row has its version from a version column
AllFromVersionColumn == \A r \in LoadedRows : r.row.version.type = "float"

\* the same when every version comes from a version column
C27_HighestByVersionColumn ==
    call.op = "load_referentials" /\ AllFromVersionColumn => HighestVersionsKept

\* versions taken from file names are compared as texts: of 9.0 and 10.0
\* the row of 9.0 is kept
C27_FileNameVersionsAsText ==
    /\ call.op = "load_referentials"
    /\ call.out.exc = "none"
    => \A r \in call.out.val : \A q \in LoadedRows :
          /\ q.row.id = r.row.id
          /\ q.row.version = [type |-> "str", value |-> <<"9", ".", "0">>]
          => r.row.version.value # <<"1", "0", ".", "0">>

====
